---- MODULE Spec2Model ----
(***************************************************************************)
(* Verification model of the Maestro kernel core: the virtual memory       *)
(* transaction, the kernel Vec and its iterator, the file descriptor       *)
(* table, the device registry, memory spaces and fork, context switch,     *)
(* kernel memory initialisation, sockets, splice, writev, process OOM      *)
(* score, pipe2 and Process::fork.                                         *)
(* Each subsystem has its own specification (SpecVMem, SpecFD, ...) over   *)
(* the shared variable list; the variables of the other subsystems stay    *)
(* at their idle value.                                                    *)
(***************************************************************************)
EXTENDS Integers, Sequences, FiniteSets, TLC

VARIABLES
    \* ---- virtual memory ----
    kernel,     \* the KERNEL const parameter of VMem<KERNEL>
    tables,     \* page directory: indexes of the page tables that are present
    pte,        \* page -> None | Some(physical address of the frame)
    rollback,   \* VMemTransaction::rollback, the Vec of rollback tokens
    rbCap,      \* capacity of the rollback Vec
    txn,        \* "open" | "dropped" | "panicked"
    pre,        \* page -> translate() of the page when the transaction began
    lastEdit,   \* page -> <<>> | <<"map", phys>> | <<"unmap">>: last edit made
    res,        \* result of the last call: "none" | "ok" | "err" | "panic"
    nCalls,     \* number of calls made on the transaction
    anyErr,     \* some call of the transaction returned an error
    committed,  \* commit() was called
    dirty,      \* an edit was made after the last commit()
    atCommit,   \* page -> translate() of the page at the last commit()
    \* ---- file descriptors ----
    fds,        \* table id -> FileDescriptorTable (sequence of slots)
    hasTable,   \* table id -> whether the table exists
    nextFile,   \* number of OpenFile objects created so far
    closeCount, \* open file -> number of times OpenFile::close ran on it
    total_fd,   \* TOTAL_FD: the system-wide count of open descriptors
    fdOp,       \* the last call made on a table: its name
    fdRes,      \* its result: <<"ok", id>> | <<"err", errno>> | <<"panic">>
    nFdCalls,   \* number of calls made
    \* ---- devices ----
    devs,       \* DEVICES: DeviceID -> None | Some(device)
    devFiles,   \* the VFS: path -> None | Some(<<file type, major, minor, mode>>)
    fileInit,   \* file::is_init()
    held,       \* the locks the running thread holds
    dpc,        \* position of the running thread in register / stage2
    cur,        \* the device register was called with: None | Some(device)
    devs_info,  \* stage2's devs_info: the (id, path, mode) still to create
    stage2,     \* stage2(): "none" | "running" | "ok" | "err"
    devOp,      \* the call last begun: "none" | "register" | "stage2" | ...
    devRes,     \* its result: "none" | "ok" | "err"
    nextDev,    \* number of Device objects created so far
    regBefore,  \* None | Some(the registry when the running register began)
    \* ---- memory space ----
    gaps,       \* MemSpace::gaps: set of <<begin page, size in pages>>
    gaps_size,  \* MemSpace::gaps_size: set of <<size, begin page>>
    mappings,   \* MemSpace::mappings: set of [begin, size, flags]
    present,    \* the pages that are materialized (have a frame)
    msOp,       \* the last call on the memory space
    msRes,      \* its result
    nMsCalls,   \* number of calls made
    oom_kills,  \* number of calls of oom::kill
    \* ---- forking a memory space ----
    spaces,     \* the memory spaces: "parent", "child" -> a space
    ref_counter,
                \* PHYSICAL_REF_COUNTER: frame -> references
    fkOp,       \* the last call: <<name, space, ...>>
    fkRes,      \* its result
    nFkCalls,   \* number of calls made
    \* ---- Vec::retain ----
    vec,        \* the elements of the vector, self[0 .. len)
    vecAlloc,   \* self.data.is_some()
    fcalls,     \* the calls of f in the last retain: <<index, element>>
    vecOp,      \* the last call on the vector
    nVecCalls,  \* number of calls made
    \* ---- vmem::switch ----
    cr3,        \* the page directory bound on the CPU
    interrupts, \* the interrupt flag of the CPU
    swStack,    \* the calls of switch that have not returned
    swOp,       \* the last step
    \* ---- vmem::init ----
    sections,   \* the sections of the kernel's ELF image
    kpt,        \* the flags of each kernelspace page in KERNEL_VMEM
    kinit,      \* init(): "boot" | "ok" | "err"
    \* ---- Socket::bind ----
    sockname,   \* Socket::sockname
    okBinds,    \* number of binds that returned Ok
    firstName,  \* None | Some(the address of the first Ok bind)
    sockOp,     \* the last call on the socket
    sockRes,    \* its result
    nSockCalls, \* number of calls made
    \* ---- splice ----
    pipeIn,     \* the bytes in the input pipe
    pipeOut,    \* the bytes written to the output pipe
    spPc,       \* splice: "idle" | "write" | "done"
    spBuf,      \* splice's in_slice
    spI,        \* splice's i
    spRes,      \* the result of the last splice
    spIn0,      \* the input pipe when the call began
    spOut0,     \* the output pipe when the call began
    nSplices,   \* number of calls made
    \* ---- do_writev ----
    wvRoom,     \* whether the file can take bytes
    wvNonblock, \* O_NONBLOCK in the open file's flags
    ofLocked,   \* the open file's lock is held by the writer
    inQueue,    \* the process is in the open file's wait queue
    sleeping,   \* the process sleeps until woken
    wvPc,       \* the writer's position in do_writev
    wvRes,      \* do_writev's result
    wvLen,      \* len of the last attempt
    nAttempts,  \* number of write attempts made (counted up to MaxAttempts)
    wvTotal,    \* sum of the iov_len of the call's entries
    wvOffArg,   \* the offset argument: None | Some(offset)
    wvStart,    \* start_off
    ofOffset,   \* the open file's offset
    wvOff0,     \* the open file's offset when do_writev was called
    \* ---- locks of the system calls ----
    lkCall,     \* the system call running, or "none"
    lkPath,     \* the lock and unlock events of its path
    lkPos,      \* number of events of the path done
    lkHeld,     \* the locks the system call holds
    nLkCalls,   \* number of system calls that returned
    \* ---- Process::get_oom_score ----
    uid,        \* Process::uid of each process
    oomOp,      \* last operation: <<name>> or <<name, process>>
    oomRes,     \* None | <<"ok", score>> | <<"panic">>
    \* ---- IntoIter of Vec ----
    iter,       \* the IntoIter: [vec, start, end]
    itFront,    \* items returned by next, in order
    itBack,     \* items returned by next_back, in order
    itOp,       \* last operation
    \* ---- pipe2 ----
    file_descriptors, \* Process::file_descriptors: descriptors sorted by id
    pipefd,     \* the user's array pipefd
    ppOp,       \* last operation
    ppRes,      \* its result
    \* ---- Process::fork ----
    pids,       \* PIDs the PID manager holds as used
    children,   \* Process::children of the parent
    sched,      \* PIDs of the processes in the scheduler
    pfOp,       \* last operation
    pfRes       \* its result

vmemVars == <<kernel, tables, pte, rollback, rbCap, txn, pre, lastEdit,
              res, nCalls, anyErr, committed, dirty, atCommit>>
fdVars == <<fds, hasTable, nextFile, closeCount, total_fd, fdOp, fdRes,
            nFdCalls>>
devVars == <<devs, devFiles, fileInit, held, dpc, cur, devs_info, stage2,
             devOp, devRes, nextDev, regBefore>>
msVars == <<gaps, gaps_size, mappings, present, msOp, msRes, nMsCalls,
            oom_kills>>
fkVars == <<spaces, ref_counter, fkOp, fkRes, nFkCalls>>
vecVars == <<vec, vecAlloc, fcalls, vecOp, nVecCalls>>
swVars == <<cr3, interrupts, swStack, swOp>>
kVars == <<sections, kpt, kinit>>
sockVars == <<sockname, okBinds, firstName, sockOp, sockRes, nSockCalls>>
spVars == <<pipeIn, pipeOut, spPc, spBuf, spI, spRes, spIn0, spOut0, nSplices>>
wvVars == <<wvRoom, wvNonblock, ofLocked, inQueue, sleeping, wvPc, wvRes,
            wvLen, nAttempts, wvTotal, wvOffArg, wvStart, ofOffset, wvOff0>>
lkVars == <<lkCall, lkPath, lkPos, lkHeld, nLkCalls>>
oomVars == <<uid, oomOp, oomRes>>
itVars == <<iter, itFront, itBack, itOp>>
ppVars == <<file_descriptors, pipefd, ppOp, ppRes>>
pfVars == <<pids, children, sched, pfOp, pfRes>>
vars == <<vmemVars, fdVars, devVars, msVars, fkVars, vecVars, swVars, kVars, sockVars, spVars, wvVars, lkVars, oomVars, itVars, ppVars, pfVars>>
nonVMemVars == <<fdVars, devVars, msVars, fkVars, vecVars, swVars, kVars, sockVars, spVars, wvVars, lkVars, oomVars, itVars, ppVars, pfVars>>
nonFdVars == <<vmemVars, devVars, msVars, fkVars, vecVars, swVars, kVars, sockVars, spVars, wvVars, lkVars, oomVars, itVars, ppVars, pfVars>>
nonDevVars == <<vmemVars, fdVars, msVars, fkVars, vecVars, swVars, kVars, sockVars, spVars, wvVars, lkVars, oomVars, itVars, ppVars, pfVars>>
nonMsVars == <<vmemVars, fdVars, devVars, fkVars, vecVars, swVars, kVars, sockVars, spVars, wvVars, lkVars, oomVars, itVars, ppVars, pfVars>>
nonFkVars == <<vmemVars, fdVars, devVars, msVars, vecVars, swVars, kVars, sockVars, spVars, wvVars, lkVars, oomVars, itVars, ppVars, pfVars>>
nonVecVars == <<vmemVars, fdVars, devVars, msVars, fkVars, swVars, kVars, sockVars, spVars, wvVars, lkVars, oomVars, itVars, ppVars, pfVars>>
nonSwVars == <<vmemVars, fdVars, devVars, msVars, fkVars, vecVars, kVars, sockVars, spVars, wvVars, lkVars, oomVars, itVars, ppVars, pfVars>>
nonKVars == <<vmemVars, fdVars, devVars, msVars, fkVars, vecVars, swVars, sockVars, spVars, wvVars, lkVars, oomVars, itVars, ppVars, pfVars>>
nonSockVars == <<vmemVars, fdVars, devVars, msVars, fkVars, vecVars, swVars, kVars, spVars, wvVars, lkVars, oomVars, itVars, ppVars, pfVars>>
nonSpVars == <<vmemVars, fdVars, devVars, msVars, fkVars, vecVars, swVars, kVars, sockVars, wvVars, lkVars, oomVars, itVars, ppVars, pfVars>>
nonWvVars == <<vmemVars, fdVars, devVars, msVars, fkVars, vecVars, swVars, kVars, sockVars, spVars, lkVars, oomVars, itVars, ppVars, pfVars>>
nonLkVars == <<vmemVars, fdVars, devVars, msVars, fkVars, vecVars, swVars, kVars, sockVars, spVars, wvVars, oomVars, itVars, ppVars, pfVars>>
nonOomVars == <<vmemVars, fdVars, devVars, msVars, fkVars, vecVars, swVars, kVars, sockVars, spVars, wvVars, lkVars, itVars, ppVars, pfVars>>
nonItVars == <<vmemVars, fdVars, devVars, msVars, fkVars, vecVars, swVars, kVars, sockVars, spVars, wvVars, lkVars, oomVars, ppVars, pfVars>>
nonPpVars == <<vmemVars, fdVars, devVars, msVars, fkVars, vecVars, swVars, kVars, sockVars, spVars, wvVars, lkVars, oomVars, itVars, pfVars>>
nonPfVars == <<vmemVars, fdVars, devVars, msVars, fkVars, vecVars, swVars, kVars, sockVars, spVars, wvVars, lkVars, oomVars, itVars, ppVars>>

None == <<>>
Some(x) == <<x>>

Max(a, b) == IF a >= b THEN a ELSE b

(***************************************************************************)
(* Bounds. The machine is scaled down: addresses are AddrBits wide (32 on  *)
(* x86) and a page is 2^PageBits bytes (4096 on x86), which keeps the      *)
(* shape of the address space: the kernel owns its last quarter.           *)
(***************************************************************************)
AddrBits == 4
PageBits == 2
EntriesPerTable == 2
MaxCalls == 2

Word == 2 ^ AddrBits
PAGE_SIZE == 2 ^ PageBits
PROCESS_END == 3 * (Word \div 4)
KERNELSPACE_SIZE == Word - PROCESS_END
NumPages == Word \div PAGE_SIZE
Pages == 0 .. (NumPages - 1)
UserPages == {p \in Pages : (p + 1) * PAGE_SIZE <= PROCESS_END}
VirtAddrs == {p * PAGE_SIZE : p \in Pages}
PhysAddrs == {PAGE_SIZE, 2 * PAGE_SIZE}
PageCounts == 0 .. NumPages

(***************************************************************************)
(* Vec (src/util/collections/vec.rs). A vector is its sequence of elements *)
(* and its capacity; allocOk says whether the allocator serves a request.  *)
(***************************************************************************)
\* Vec::increase_capacity: the new capacity, or failure of the reallocation.
increase_capacity(len, cap, min, allocOk) ==
    IF len + min <= cap THEN [ok |-> TRUE, cap |-> cap]
    ELSE IF allocOk
         THEN [ok |-> TRUE, cap |-> Max(cap + (cap \div 4), len + min)]
         ELSE [ok |-> FALSE, cap |-> cap]

\* Vec::push
Vec_push(v, cap, value, allocOk) ==
    LET c == increase_capacity(Len(v), cap, 1, allocOk)
    IN  IF c.ok THEN [ok |-> TRUE, vec |-> Append(v, value), cap |-> c.cap]
        ELSE [ok |-> FALSE, vec |-> v, cap |-> cap]

\* Vec::reserve(additional): room for `additional` more elements.
Vec_reserve(v, cap, additional, allocOk) ==
    increase_capacity(Len(v), cap, additional, allocOk)

\* IntoIterator for Vec: the iterator is the vector and two offsets.
into_iter(v) == [vec |-> v, start |-> 0, end |-> Len(v)]

\* Iterator::next for IntoIter
IntoIter_next(it) ==
    IF it.start >= it.end THEN [item |-> None, it |-> it]
    ELSE [item |-> Some(it.vec[it.start + 1]),
          it |-> [it EXCEPT !.start = it.start + 1]]

\* DoubleEndedIterator::next_back for IntoIter: reads self.vec[self.start],
\* then decrements self.end.
IntoIter_next_back(it) ==
    IF it.start >= it.end THEN [item |-> None, it |-> it]
    ELSE [item |-> Some(it.vec[it.start + 1]),
          it |-> [it EXCEPT !.end = it.end - 1]]

\* into_iter().rev() collected: the items in the order rev() yields them.
RECURSIVE RevItems(_)
RevItems(it) ==
    LET n == IntoIter_next_back(it)
    IN  IF n.item = None THEN <<>> ELSE <<n.item[1]>> \o RevItems(n.it)

(***************************************************************************)
(* The x86 page-table driver (x86::translate, x86::map, x86::unmap and     *)
(* Rollback::rollback), a two-level table: a directory of page tables.     *)
(* A rollback token is [page, prev, newTable]: the page edited, its entry  *)
(* before the edit and whether the edit allocated the page's table.        *)
(***************************************************************************)
PageOf(addr) == addr \div PAGE_SIZE
TableOf(page) == page \div EntriesPerTable

x86_translate(tb, pt, addr) ==
    LET p == PageOf(addr)
    IN  IF TableOf(p) \in tb /\ pt[p] # None
        THEN Some(pt[p][1] + (addr % PAGE_SIZE))
        ELSE None

\* x86::map: fails when the page's table is absent and cannot be allocated.
x86_map(tb, pt, physaddr, virtaddr, allocOk) ==
    LET p == PageOf(virtaddr)
        t == TableOf(p)
    IN  IF t \notin tb /\ ~allocOk
        THEN [ok |-> FALSE, tables |-> tb, pte |-> pt, token |-> None]
        ELSE [ok |-> TRUE, tables |-> tb \cup {t},
              pte |-> [pt EXCEPT ![p] = Some(physaddr - (physaddr % PAGE_SIZE))],
              token |-> [page |-> p, prev |-> pt[p], newTable |-> t \notin tb]]

\* x86::unmap: clears the entry; nothing to do when the table is absent.
x86_unmap(tb, pt, virtaddr) ==
    LET p == PageOf(virtaddr)
    IN  [ok |-> TRUE, tables |-> tb, pte |-> [pt EXCEPT ![p] = None],
         token |-> [page |-> p, prev |-> pt[p], newTable |-> FALSE]]

\* Rollback::rollback: restores the entry, frees a table the edit allocated.
Rollback_rollback(tb, pt, r) ==
    IF r.newTable
    THEN [tables |-> tb \ {TableOf(r.page)},
          pte |-> [q \in Pages |->
                     IF TableOf(q) = TableOf(r.page) THEN None ELSE pt[q]]]
    ELSE [tables |-> tb, pte |-> [pt EXCEPT ![r.page] = r.prev]]

\* VirtAddr + offset and PhysAddr + offset: wrap around the address space.
AddrAdd(addr, off) == (addr + off) % Word

(***************************************************************************)
(* VMem and VMemTransaction (kernel/src/memory/vmem/mod.rs). The           *)
(* operators work on a record s = [tables, pte, rollback, rbCap, lastEdit] *)
(* and return it with the call's result. lastEdit is a history variable:   *)
(* it records the edit the driver made last on each page.                  *)
(***************************************************************************)
\* usize multiplication pages * PAGE_SIZE: overflows at the word size.
MulOverflows(pages) == pages * PAGE_SIZE >= Word

\* is_kernelspace: checked_add of the (wrapped) size, then the comparison.
is_kernelspace(virtaddr, pages) ==
    LET size == (pages * PAGE_SIZE) % Word
        end == virtaddr + size
    IN  IF end >= Word THEN TRUE ELSE end > PROCESS_END

\* VMem::translate
translate(tb, pt, addr) == x86_translate(tb, pt, addr)

\* VMemTransaction::map_impl
map_impl(s, physaddr, virtaddr, drvOk) ==
    LET r == x86_map(s.tables, s.pte, physaddr, virtaddr, drvOk)
    IN  [ok |-> r.ok, token |-> r.token,
         s |-> IF r.ok
               THEN [s EXCEPT !.tables = r.tables, !.pte = r.pte,
                              !.lastEdit[PageOf(virtaddr)] =
                                  <<"map", physaddr - (physaddr % PAGE_SIZE)>>]
               ELSE s]

\* VMemTransaction::unmap_impl
unmap_impl(s, virtaddr) ==
    LET r == x86_unmap(s.tables, s.pte, virtaddr)
    IN  [ok |-> r.ok, token |-> r.token,
         s |-> [s EXCEPT !.tables = r.tables, !.pte = r.pte,
                        !.lastEdit[PageOf(virtaddr)] = <<"unmap">>]]

\* self.rollback.push(r): the token is lost when the vector cannot grow.
PushToken(s, token, vecOk) ==
    LET r == Vec_push(s.rollback, s.rbCap, token, vecOk)
    IN  [res |-> IF r.ok THEN "ok" ELSE "err",
         s |-> [s EXCEPT !.rollback = r.vec, !.rbCap = r.cap]]

\* VMemTransaction::map
VMemTransaction_map(s, k, physaddr, virtaddr, drvOk, vecOk) ==
    IF ~k /\ is_kernelspace(virtaddr, 1) THEN [res |-> "err", s |-> s]
    ELSE LET r == map_impl(s, physaddr, virtaddr, drvOk)
         IN  IF ~r.ok THEN [res |-> "err", s |-> s]
             ELSE PushToken(r.s, r.token, vecOk)

\* VMemTransaction::unmap
VMemTransaction_unmap(s, k, virtaddr, vecOk) ==
    IF ~k /\ is_kernelspace(virtaddr, 1) THEN [res |-> "err", s |-> s]
    ELSE LET r == unmap_impl(s, virtaddr)
         IN  PushToken(r.s, r.token, vecOk)

\* The loop of map_range from page i on; the driver's allocation fails at
\* page failAt (if that page's table has to be allocated).
RECURSIVE MapLoop(_, _, _, _, _, _, _)
MapLoop(s, physaddr, virtaddr, i, pages, failAt, vecOk) ==
    IF i >= pages THEN [res |-> "ok", s |-> s]
    ELSE LET r == map_impl(s, AddrAdd(physaddr, i * PAGE_SIZE),
                           AddrAdd(virtaddr, i * PAGE_SIZE), i # failAt)
         IN  IF ~r.ok THEN [res |-> "err", s |-> s]
             ELSE LET q == PushToken(r.s, r.token, vecOk)
                  IN  IF q.res = "err" THEN q
                      ELSE MapLoop(q.s, physaddr, virtaddr, i + 1, pages,
                                   failAt, vecOk)

\* VMemTransaction::map_range
VMemTransaction_map_range(s, k, physaddr, virtaddr, pages, failAt, vecOk) ==
    IF pages = 0 THEN [res |-> "ok", s |-> s]
    ELSE IF pages = 1
    THEN VMemTransaction_map(s, k, physaddr, virtaddr, failAt # 0, vecOk)
    ELSE IF ~k /\ is_kernelspace(virtaddr, pages) THEN [res |-> "err", s |-> s]
    ELSE LET c == Vec_reserve(s.rollback, s.rbCap, pages, vecOk)
         IN  IF ~c.ok THEN [res |-> "err", s |-> s]
             ELSE MapLoop([s EXCEPT !.rbCap = c.cap], physaddr, virtaddr, 0,
                          pages, failAt, vecOk)

\* The loop of unmap_range from page i on.
RECURSIVE UnmapLoop(_, _, _, _, _)
UnmapLoop(s, virtaddr, i, pages, vecOk) ==
    IF i >= pages THEN [res |-> "ok", s |-> s]
    ELSE LET r == unmap_impl(s, AddrAdd(virtaddr, i * PAGE_SIZE))
             q == PushToken(r.s, r.token, vecOk)
         IN  IF q.res = "err" THEN q
             ELSE UnmapLoop(q.s, virtaddr, i + 1, pages, vecOk)

\* VMemTransaction::unmap_range
VMemTransaction_unmap_range(s, k, virtaddr, pages, vecOk) ==
    IF pages = 0 THEN [res |-> "ok", s |-> s]
    ELSE IF pages = 1 THEN VMemTransaction_unmap(s, k, virtaddr, vecOk)
    ELSE IF ~k /\ is_kernelspace(virtaddr, pages) THEN [res |-> "err", s |-> s]
    ELSE LET c == Vec_reserve(s.rollback, s.rbCap, pages, vecOk)
         IN  IF ~c.ok THEN [res |-> "err", s |-> s]
             ELSE UnmapLoop([s EXCEPT !.rbCap = c.cap], virtaddr, 0, pages,
                            vecOk)

\* A commit that keeps the rollback log.
commit_KeepLog(rb) == rb

\* VMemTransaction::commit: self.rollback.clear()
VMemTransaction_commit(rb) == <<>>

\* Applies the tokens of `items` in order.
RECURSIVE ForEachRollback(_, _, _)
ForEachRollback(tb, pt, items) ==
    IF items = <<>> THEN [tables |-> tb, pte |-> pt]
    ELSE LET r == Rollback_rollback(tb, pt, Head(items))
         IN  ForEachRollback(r.tables, r.pte, Tail(items))

\* Drop for VMemTransaction: rollback.into_iter().rev().for_each(rollback)
VMemTransaction_drop(tb, pt, rb) ==
    ForEachRollback(tb, pt, RevItems(into_iter(rb)))

(***************************************************************************)
(* The transaction as a state machine: one VMem with a transaction begun   *)
(* on it (VMem::transaction), calls on the transaction, commit and drop.   *)
(***************************************************************************)
VmState == [tables |-> tables, pte |-> pte, rollback |-> rollback,
            rbCap |-> rbCap, lastEdit |-> lastEdit]

\* The page tables a transaction begins on: the kernel's pages map the
\* physical memory from 0 (x86::alloc shares the kernel's tables with every
\* context, see test vmem_basic1), and the user pages are all unmapped (a
\* new context, see test vmem_basic0) or the first one is mapped (a context
\* that an earlier transaction edited).
InitPte == {pt \in [Pages -> {None} \cup {Some(f) : f \in PhysAddrs \cup {0}}] :
              /\ \A p \in Pages \ UserPages :
                     pt[p] = Some(p * PAGE_SIZE - PROCESS_END)
              /\ \A p \in UserPages \ {0} : pt[p] = None
              /\ pt[0] \in {None, Some(2 * PAGE_SIZE)}}

VMemIdle ==
    /\ kernel = FALSE /\ tables = {} /\ pte = [p \in Pages |-> None]
    /\ rollback = <<>> /\ rbCap = 0 /\ txn = "none"
    /\ pre = [p \in Pages |-> None] /\ lastEdit = [p \in Pages |-> None]
    /\ res = "none" /\ nCalls = 0
    /\ anyErr = FALSE /\ committed = FALSE /\ dirty = FALSE
    /\ atCommit = [p \in Pages |-> None]

FdIdle ==
    /\ fds = <<>> /\ hasTable = <<>> /\ nextFile = 0 /\ closeCount = <<>>
    /\ total_fd = 0
    /\ fdOp = "none" /\ fdRes = None /\ nFdCalls = 0

DevIdle ==
    /\ devs = <<>> /\ devFiles = <<>> /\ fileInit = FALSE /\ held = {}
    /\ dpc = "none" /\ cur = None /\ devs_info = {} /\ stage2 = "none"
    /\ devOp = "none"
    /\ devRes = "none" /\ nextDev = 0 /\ regBefore = None

MsIdle ==
    /\ gaps = {} /\ gaps_size = {} /\ mappings = {} /\ present = {}
    /\ msOp = "none" /\ msRes = None /\ nMsCalls = 0 /\ oom_kills = 0

FkIdle ==
    /\ spaces = <<>> /\ ref_counter = <<>>
    /\ fkOp = <<"none">> /\ fkRes = None /\ nFkCalls = 0

VecIdle ==
    /\ vec = <<>> /\ vecAlloc = FALSE /\ fcalls = <<>>
    /\ vecOp = "none" /\ nVecCalls = 0

SwIdle ==
    /\ cr3 = 0 /\ interrupts = FALSE /\ swStack = <<>> /\ swOp = "none"

KIdle ==
    /\ sections = <<>> /\ kpt = <<>> /\ kinit = "none"

SockIdle ==
    /\ sockname = <<>> /\ okBinds = 0 /\ firstName = None
    /\ sockOp = "none" /\ sockRes = None /\ nSockCalls = 0

SpIdle ==
    /\ pipeIn = <<>> /\ pipeOut = <<>> /\ spPc = "none" /\ spBuf = <<>>
    /\ spI = 0 /\ spRes = None /\ spIn0 = <<>> /\ spOut0 = <<>>
    /\ nSplices = 0

WvIdle ==
    /\ wvRoom = FALSE /\ wvNonblock = FALSE /\ ofLocked = FALSE
    /\ inQueue = FALSE /\ sleeping = FALSE /\ wvPc = "none"
    /\ wvRes = None /\ wvLen = 0 /\ nAttempts = 0
    /\ wvTotal = 0 /\ wvOffArg = None /\ wvStart = 0 /\ ofOffset = 0
    /\ wvOff0 = 0

LkIdle ==
    /\ lkCall = "none" /\ lkPath = <<>> /\ lkPos = 0 /\ lkHeld = {}
    /\ nLkCalls = 0

OomIdle ==
    /\ uid = <<>> /\ oomOp = <<"none">> /\ oomRes = None

ItIdle ==
    /\ iter = <<>> /\ itFront = <<>> /\ itBack = <<>> /\ itOp = "none"

PpIdle ==
    /\ file_descriptors = <<>> /\ pipefd = <<>> /\ ppOp = "none" /\ ppRes = None

PfIdle ==
    /\ pids = {} /\ children = <<>> /\ sched = {} /\ pfOp = "none" /\ pfRes = None

\* VMem::new / VMem::new_kernel, then VMem::transaction
InitVMem ==
    /\ kernel \in BOOLEAN
    /\ pte \in InitPte
    /\ tables = {TableOf(p) : p \in {q \in Pages : pte[q] # None}}
    /\ rollback = <<>> /\ rbCap = 0
    /\ txn = "open"
    /\ pre = [p \in Pages |-> translate(tables, pte, p * PAGE_SIZE)]
    /\ lastEdit = [p \in Pages |-> None]
    /\ res = "none" /\ nCalls = 0
    /\ anyErr = FALSE /\ committed = FALSE /\ dirty = FALSE
    /\ atCommit = pre
    /\ FdIdle /\ DevIdle /\ MsIdle /\ FkIdle /\ VecIdle /\ SwIdle /\ KIdle
    /\ PfIdle /\ PpIdle /\ ItIdle /\ OomIdle /\ LkIdle /\ WvIdle /\ SpIdle
    /\ SockIdle

\* The state after a call that returned r = [res, s].
Called(r) ==
    /\ tables' = r.s.tables /\ pte' = r.s.pte
    /\ rollback' = r.s.rollback /\ rbCap' = r.s.rbCap
    /\ lastEdit' = r.s.lastEdit
    /\ res' = r.res /\ nCalls' = nCalls + 1
    /\ anyErr' = (anyErr \/ r.res = "err")
    /\ dirty' = (dirty \/ r.s.lastEdit # lastEdit \/ r.s.pte # pte
                       \/ r.s.rollback # rollback)
    /\ UNCHANGED <<kernel, txn, pre, committed, atCommit, nonVMemVars>>

\* The kernel panics (arithmetic overflow with overflow checks compiled in).
Panicked ==
    /\ res' = "panic" /\ nCalls' = nCalls + 1
    /\ txn' = "panicked"
    /\ UNCHANGED <<kernel, tables, pte, rollback, rbCap, pre, lastEdit,
                   anyErr, committed, dirty, atCommit, nonVMemVars>>

Map(physaddr, virtaddr, drvOk, vecOk) ==
    /\ txn = "open" /\ nCalls < MaxCalls
    /\ Called(VMemTransaction_map(VmState, kernel, physaddr, virtaddr, drvOk,
                                  vecOk))

Unmap(virtaddr, vecOk) ==
    /\ txn = "open" /\ nCalls < MaxCalls
    /\ Called(VMemTransaction_unmap(VmState, kernel, virtaddr, vecOk))

\* Whether the call evaluates pages * PAGE_SIZE with an overflowing result.
RangeOverflows(pages) == ~kernel /\ pages >= 2 /\ MulOverflows(pages)

MapRange(physaddr, virtaddr, pages, failAt, vecOk) ==
    /\ txn = "open" /\ nCalls < MaxCalls
    /\ \/ /\ RangeOverflows(pages)
          /\ Panicked
       \/ Called(VMemTransaction_map_range(VmState, kernel, physaddr, virtaddr,
                                           pages, failAt, vecOk))

UnmapRange(virtaddr, pages, vecOk) ==
    /\ txn = "open" /\ nCalls < MaxCalls
    /\ \/ /\ RangeOverflows(pages)
          /\ Panicked
       \/ Called(VMemTransaction_unmap_range(VmState, kernel, virtaddr, pages,
                                             vecOk))

Commit ==
    /\ txn = "open"
    /\ rollback' = VMemTransaction_commit(rollback)
    /\ rbCap' = IF rollback' = <<>> THEN 0 ELSE rbCap
    /\ committed' = TRUE /\ dirty' = FALSE
    /\ atCommit' = [p \in Pages |-> translate(tables, pte, p * PAGE_SIZE)]
    /\ UNCHANGED <<kernel, tables, pte, txn, pre, lastEdit, res,
                   nCalls, anyErr, nonVMemVars>>

Drop ==
    /\ txn = "open"
    /\ LET r == VMemTransaction_drop(tables, pte, rollback)
       IN  tables' = r.tables /\ pte' = r.pte
    /\ rollback' = <<>> /\ rbCap' = 0
    /\ txn' = "dropped"
    /\ UNCHANGED <<kernel, pre, lastEdit, res, nCalls, anyErr,
                   committed, dirty, atCommit, nonVMemVars>>

NextVMem ==
    \/ \E ph \in PhysAddrs, v \in VirtAddrs, d \in BOOLEAN, a \in BOOLEAN :
           Map(ph, v, d, a)
    \/ \E v \in VirtAddrs, a \in BOOLEAN : Unmap(v, a)
    \/ \E ph \in PhysAddrs, v \in VirtAddrs, n \in PageCounts,
          f \in 0 .. NumPages, a \in BOOLEAN :
           f <= n /\ MapRange(ph, v, n, f, a)
    \/ \E v \in VirtAddrs, n \in PageCounts, a \in BOOLEAN :
           UnmapRange(v, n, a)
    \/ Commit
    \/ Drop

SpecVMem == InitVMem /\ [][NextVMem]_vars

(***************************************************************************)
(* File descriptors (kernel/src/file/fd.rs). A FileDescriptorTable is the  *)
(* sequence of its slots, slot id at index id + 1; a slot is None or the   *)
(* descriptor <<flags, open file>>. An open file is named by the number of *)
(* its creation; descriptors that share an Arc<Mutex<OpenFile>> hold the   *)
(* same number.                                                            *)
(***************************************************************************)
OPEN_MAX == 3
MaxFiles == 2
MaxFdCalls == 4
FD_CLOEXEC == 1
\* u32::MAX as usize: the largest value of a word of the scaled machine.
TOTAL_MAX_FD == Word - 1

TableIds == {1, 2}
Files == 1 .. MaxFiles
FdFlags(fd) == fd[1]
FdFile(fd) == fd[2]
Slot(tbl, id) == IF id >= 0 /\ id < Len(tbl) THEN tbl[id + 1] ELSE None

\* increment_total: the new value of TOTAL_FD, or ENFILE at the maximum.
\* No function of the table calls it.
increment_total(total) ==
    IF total >= TOTAL_MAX_FD THEN [res |-> <<"err", "ENFILE">>, total |-> total]
    ELSE [res |-> <<"ok", 0>>, total |-> total + 1]

\* decrement_total. No function of the table calls it.
decrement_total(total) == total - 1

\* NewFDConstraint
Constraints ==
    {<<"None">>} \cup {<<"Fixed", n>> : n \in 0 .. OPEN_MAX}
                 \cup {<<"Min", n>> : n \in 0 .. (OPEN_MAX + 1)}

SetMin(S) == CHOOSE x \in S : \A y \in S : x <= y

\* A get_available_fd that ignores the holes of the table.
get_available_fd_AtEnd(tbl, min) ==
    LET m == IF min = None THEN 0 ELSE min[1]
        id == Max(Len(tbl), m)
    IN  IF id < OPEN_MAX THEN <<"ok", id>> ELSE <<"err", "EMFILE">>

\* FileDescriptorTable::get_available_fd. The slice self.0[min..] panics
\* when min is beyond the table; find() yields the index of the first hole
\* within the slice.
get_available_fd(tbl, min) ==
    LET m == IF min = None THEN 0 ELSE min[1]
        holes == {i \in 0 .. (Len(tbl) - m - 1) : tbl[m + i + 1] = None}
        id == Max(Len(tbl), m)
    IN  IF m > Len(tbl) THEN <<"panic">>
        ELSE IF holes # {} THEN <<"ok", SetMin(holes)>>
        ELSE IF id < OPEN_MAX THEN <<"ok", id>>
        ELSE <<"err", "EMFILE">>

\* FileDescriptorTable::extend: resizes the table to fit `id`; growing the
\* vector allocates, which may fail.
extend(tbl, id, vecOk) ==
    IF id < Len(tbl) THEN [ok |-> TRUE, tbl |-> tbl]
    ELSE IF vecOk
    THEN [ok |-> TRUE,
          tbl |-> tbl \o [k \in 1 .. (id + 1 - Len(tbl)) |-> None]]
    ELSE [ok |-> FALSE, tbl |-> tbl]

\* FileDescriptorTable::get_fd
get_fd(tbl, id) ==
    IF Slot(tbl, id) = None THEN <<"err", "EBADF">> ELSE <<"ok", Slot(tbl, id)>>

\* self.0[id as usize].insert(fd): the slot's former content is dropped.
InsertFd(tbl, id, fd) == [tbl EXCEPT ![id + 1] = fd]

\* FileDescriptorTable::create_fd; `file` is the open file given to it.
create_fd(tbl, flags, file, arcOk, vecOk) ==
    LET a == get_available_fd(tbl, None)
    IN  IF a[1] # "ok" THEN [res |-> a, tbl |-> tbl]
        ELSE IF ~arcOk THEN [res |-> <<"err", "ENOMEM">>, tbl |-> tbl]
        ELSE LET e == extend(tbl, a[2], vecOk)
             IN  IF ~e.ok THEN [res |-> <<"err", "ENOMEM">>, tbl |-> tbl]
                 ELSE [res |-> <<"ok", a[2]>>,
                       tbl |-> InsertFd(e.tbl, a[2], <<flags, file>>)]

\* The new id duplicate_fd chooses for a constraint.
NewId(tbl, constraint) ==
    IF constraint[1] = "None" THEN get_available_fd(tbl, None)
    ELSE IF constraint[1] = "Fixed"
    THEN IF constraint[2] >= OPEN_MAX THEN <<"err", "EMFILE">>
         ELSE <<"ok", constraint[2]>>
    ELSE get_available_fd(tbl, Some(constraint[2]))

\* A clone that opens the file again: a new open file, not the shared one.
CloneFd_Reopen(old_fd, flags) == <<flags, (FdFile(old_fd) % MaxFiles) + 1>>

\* old_fd.clone() with the new flags: the Arc of the open file is shared.
CloneFd(old_fd, flags) == <<flags, FdFile(old_fd)>>

\* FileDescriptorTable::duplicate_fd
duplicate_fd(tbl, id, constraint, cloexec, vecOk) ==
    LET n == NewId(tbl, constraint)
        old == get_fd(tbl, id)
    IN  IF n[1] # "ok" THEN [res |-> n, tbl |-> tbl]
        ELSE IF old[1] # "ok" THEN [res |-> old, tbl |-> tbl]
        ELSE LET e == extend(tbl, n[2], vecOk)
                 new_fd == CloneFd(old[2], IF cloexec THEN FD_CLOEXEC ELSE 0)
             IN  IF ~e.ok THEN [res |-> <<"err", "ENOMEM">>, tbl |-> tbl]
                 ELSE [res |-> <<"ok", n[2]>>,
                       tbl |-> InsertFd(e.tbl, n[2], new_fd)]

\* A duplicate that keeps the descriptors that have FD_CLOEXEC.
duplicate_KeepCloexec(tbl, cloexec) == tbl

\* FileDescriptorTable::duplicate: the whole table, without the descriptors
\* that have FD_CLOEXEC when cloexec is set.
duplicate(tbl, cloexec) ==
    [k \in 1 .. Len(tbl) |->
        IF tbl[k] # None
           /\ (~cloexec \/ (FdFlags(tbl[k]) \div FD_CLOEXEC) % 2 = 0)
        THEN tbl[k] ELSE None]

\* The new length close_fd truncates the table to: past the last descriptor.
ShrunkLen(tbl) ==
    LET used == {k \in 1 .. Len(tbl) : tbl[k] # None}
    IN  IF used = {} THEN 0 ELSE CHOOSE k \in used : \A j \in used : j <= k

\* A close_fd that returns Ok for a slot that holds no descriptor.
close_fd_NoEBADF(tbl, id) ==
    [res |-> <<"ok", 0>>, tbl |-> tbl, fd |-> Slot(tbl, id)]

\* FileDescriptorTable::close_fd: takes the descriptor out of its slot and
\* truncates the table; fd is the descriptor to close.
close_fd(tbl, id) ==
    IF id < 0 \/ id >= Len(tbl) \/ Slot(tbl, id) = None
    THEN [res |-> <<"err", "EBADF">>, tbl |-> tbl, fd |-> None]
    ELSE LET taken == [tbl EXCEPT ![id + 1] = None]
         IN  [res |-> <<"ok", 0>>, tbl |-> SubSeq(taken, 1, ShrunkLen(taken)),
              fd |-> tbl[id + 1]]

\* The number of descriptors, in all tables, that hold open file f: the
\* strong count of its Arc.
Refs(all, f) ==
    Cardinality({x \in UNION {{t} \X (1 .. Len(all[t])) : t \in TableIds} :
                    /\ all[x[1]][x[2]] # None
                    /\ FdFile(all[x[1]][x[2]]) = f})

\* A close that closes the open file whatever the references left.
close_Always(all, fd) == TRUE

\* FileDescriptor::close: whether OpenFile::close runs, that is whether
\* Arc::into_inner yields the open file: no other descriptor holds it.
FileDescriptor_close(all, fd) == Refs(all, FdFile(fd)) = 0

(***************************************************************************)
(* The descriptor tables as a state machine: table 1 is a process's table; *)
(* table 2 is made from it by FileDescriptorTable::duplicate (fork, exec). *)
(***************************************************************************)
InitFD ==
    /\ fds = [t \in TableIds |-> <<>>]
    /\ hasTable = [t \in TableIds |-> t = 1]
    /\ nextFile = 0
    /\ closeCount = [f \in Files |-> 0]
    /\ total_fd = 0
    /\ fdOp = "none" /\ fdRes = None /\ nFdCalls = 0
    /\ VMemIdle /\ DevIdle /\ MsIdle /\ FkIdle /\ VecIdle /\ SwIdle /\ KIdle
    /\ PfIdle /\ PpIdle /\ ItIdle /\ OomIdle /\ LkIdle /\ WvIdle /\ SpIdle
    /\ SockIdle

FdReady(t) == hasTable[t] /\ fdRes # <<"panic">> /\ nFdCalls < MaxFdCalls

CreateFd(t, flags, arcOk, vecOk) ==
    /\ FdReady(t) /\ nextFile < MaxFiles
    /\ LET r == create_fd(fds[t], flags, nextFile + 1, arcOk, vecOk)
       IN  /\ fds' = [fds EXCEPT ![t] = r.tbl]
           /\ fdRes' = r.res
           /\ nextFile' = IF r.res[1] = "ok" THEN nextFile + 1 ELSE nextFile
    /\ fdOp' = "create_fd" /\ nFdCalls' = nFdCalls + 1
    /\ UNCHANGED <<hasTable, closeCount, total_fd, nonFdVars>>

DuplicateFd(t, id, constraint, cloexec, vecOk) ==
    /\ FdReady(t)
    /\ LET r == duplicate_fd(fds[t], id, constraint, cloexec, vecOk)
       IN  /\ fds' = [fds EXCEPT ![t] = r.tbl]
           /\ fdRes' = r.res
    /\ fdOp' = "duplicate_fd" /\ nFdCalls' = nFdCalls + 1
    /\ UNCHANGED <<hasTable, nextFile, closeCount, total_fd, nonFdVars>>

CloseFd(t, id) ==
    /\ FdReady(t)
    /\ LET r == close_fd(fds[t], id)
       IN  /\ fds' = [fds EXCEPT ![t] = r.tbl]
           /\ fdRes' = r.res
           /\ closeCount' =
                 IF r.fd # None /\ FileDescriptor_close(fds', r.fd)
                 THEN [closeCount EXCEPT ![FdFile(r.fd)] = @ + 1]
                 ELSE closeCount
    /\ fdOp' = "close_fd" /\ nFdCalls' = nFdCalls + 1
    /\ UNCHANGED <<hasTable, nextFile, total_fd, nonFdVars>>

DuplicateTable(cloexec, allocOk) ==
    /\ FdReady(1) /\ ~hasTable[2]
    /\ IF allocOk
       THEN /\ fds' = [fds EXCEPT ![2] = duplicate(fds[1], cloexec)]
            /\ hasTable' = [hasTable EXCEPT ![2] = TRUE]
            /\ fdRes' = <<"ok", 0>>
       ELSE /\ fdRes' = <<"err", "ENOMEM">>
            /\ UNCHANGED <<fds, hasTable>>
    /\ fdOp' = "duplicate" /\ nFdCalls' = nFdCalls + 1
    /\ UNCHANGED <<nextFile, closeCount, total_fd, nonFdVars>>

FdIds == -1 .. OPEN_MAX

NextFD ==
    \/ \E t \in TableIds, fl \in {0, FD_CLOEXEC}, a \in BOOLEAN, v \in BOOLEAN :
           CreateFd(t, fl, a, v)
    \/ \E t \in TableIds, id \in FdIds, c \in Constraints, ce \in BOOLEAN,
          v \in BOOLEAN :
           DuplicateFd(t, id, c, ce, v)
    \/ \E t \in TableIds, id \in FdIds : CloseFd(t, id)
    \/ \E ce \in BOOLEAN, a \in BOOLEAN : DuplicateTable(ce, a)

SpecFD == InitFD /\ [][NextFD]_vars

(***************************************************************************)
(* Devices (kernel/src/device/mod.rs). A DeviceID is <<dev_type, major,    *)
(* minor>>; a Device is [obj, id, path, mode], obj naming the object. The  *)
(* VFS is the map from a path to the file at it. register and stage2 are   *)
(* split where they take and release the DEVICES lock.                     *)
(***************************************************************************)
MaxMinor == 0
MaxPaths == 2
MaxDevs == 3

DeviceType == {"Block", "Char"}
DeviceIDs == DeviceType \X {1} \X (0 .. MaxMinor)
DevPaths == 1 .. MaxPaths
Modes == {384, 438}

\* DeviceType::as_file_type
as_file_type(dev_type) ==
    IF dev_type = "Block" THEN "BlockDevice" ELSE "CharDevice"

\* Device::create_file: creates the file with the device's Stat unless a
\* file exists at the path; vfsOk says whether the VFS calls succeed.
create_file(files, id, path, mode, vfsOk) ==
    IF ~vfsOk THEN [ok |-> FALSE, files |-> files]
    ELSE IF files[path] # None THEN [ok |-> TRUE, files |-> files]
    ELSE [ok |-> TRUE,
          files |-> [files EXCEPT ![path] =
                        Some(<<as_file_type(id[1]), id[2], id[3], mode>>)]]

\* Device::remove_file
remove_file(files, path) == [files EXCEPT ![path] = None]

\* Drop for Device: removes the device file.
Device_drop(files, dev) == remove_file(files, dev.path)

\* HashMap::insert: stores the value and returns the one it replaces.
HashMap_insert(map, key, value) ==
    [map |-> [map EXCEPT ![key] = Some(value)], old |-> map[key]]

\* device::get: the device registered with the id, if any.
get(map, id) == map[id]

\* A snapshot that forgets the devices.
devs_info_Empty(map) == {}

\* The devs_info stage2 collects: (id, path, mode) of every device.
devs_info_of(map) ==
    {<<id, map[id][1].path, map[id][1].mode>> :
        id \in {i \in DeviceIDs : map[i] # None}}

Lock(h, l) == h \cup {l}

\* A guard that is never released.
Unlock_Never(h, l) == h

\* The end of the block that holds the guard of lock l.
Unlock(h, l) == h \ {l}

InitDev ==
    /\ devs = [id \in DeviceIDs |-> None]
    /\ devFiles = [p \in DevPaths |-> None]
    /\ fileInit = FALSE /\ held = {} /\ dpc = "idle" /\ cur = None
    /\ devs_info = {} /\ stage2 = "none" /\ devOp = "none" /\ devRes = "none"
    /\ nextDev = 0 /\ regBefore = None
    /\ VMemIdle /\ FdIdle /\ MsIdle /\ FkIdle /\ VecIdle /\ SwIdle /\ KIdle
    /\ PfIdle /\ PpIdle /\ ItIdle /\ OomIdle /\ LkIdle /\ WvIdle /\ SpIdle
    /\ SockIdle

\* Files management gets initialized: file::is_init() is true from then on.
FileInit ==
    /\ dpc = "idle" /\ ~fileInit
    /\ fileInit' = TRUE /\ devOp' = "file_init" /\ devRes' = "ok"
    /\ UNCHANGED <<devs, devFiles, held, dpc, cur, devs_info, stage2, nextDev,
                   regBefore, nonDevVars>>

\* register, up to DEVICES.lock(): the path is copied and the device put in
\* an Arc; when an allocation fails the device is dropped.
Register(id, path, mode, allocOk) ==
    /\ dpc = "idle" /\ nextDev < MaxDevs
    /\ LET d == [obj |-> nextDev + 1, id |-> id, path |-> path, mode |-> mode]
       IN  IF allocOk
           THEN /\ cur' = Some(d) /\ held' = Lock(held, "DEVICES")
                /\ dpc' = "reg_insert" /\ devRes' = "none"
                /\ UNCHANGED devFiles
           ELSE /\ devFiles' = Device_drop(devFiles, d)
                /\ devRes' = "err"
                /\ UNCHANGED <<cur, held, dpc>>
    /\ regBefore' = IF allocOk THEN Some(devs) ELSE None
    /\ nextDev' = nextDev + 1 /\ devOp' = "register"
    /\ UNCHANGED <<devs, fileInit, devs_info, stage2, nonDevVars>>

\* register, the block under the lock: devs.insert(id, dev_mutex)?; the
\* value insert returns, the device that had the id, is dropped.
RegisterInsert(allocOk) ==
    /\ dpc = "reg_insert"
    /\ LET d == cur[1]
           r == HashMap_insert(devs, d.id, d)
       IN  IF allocOk
           THEN /\ devs' = r.map
                /\ devFiles' = IF r.old # None
                               THEN Device_drop(devFiles, r.old[1])
                               ELSE devFiles
                /\ dpc' = "reg_file"
                /\ UNCHANGED <<cur, devRes>>
           ELSE /\ devFiles' = Device_drop(devFiles, d)
                /\ dpc' = "idle" /\ devRes' = "err" /\ cur' = None
                /\ UNCHANGED devs
    /\ regBefore' = IF allocOk THEN regBefore ELSE None
    /\ held' = Unlock(held, "DEVICES")
    /\ UNCHANGED <<fileInit, devs_info, stage2, devOp, nextDev, nonDevVars>>

\* register, after the lock: the device file, if file::is_init().
RegisterFile(vfsOk) ==
    /\ dpc = "reg_file"
    /\ LET d == cur[1]
           r == create_file(devFiles, d.id, d.path, d.mode, vfsOk)
       IN  IF fileInit
           THEN /\ devFiles' = r.files
                /\ devRes' = IF r.ok THEN "ok" ELSE "err"
           ELSE /\ devRes' = "ok"
                /\ UNCHANGED devFiles
    /\ dpc' = "idle" /\ cur' = None /\ regBefore' = None
    /\ UNCHANGED <<devs, fileInit, held, devs_info, stage2, devOp, nextDev,
                   nonDevVars>>

\* unregister: removes the device from the registry, then its file.
Unregister(id) ==
    /\ dpc = "idle" /\ devs[id] # None
    /\ devs' = [devs EXCEPT ![id] = None]
    /\ devFiles' = remove_file(devFiles, devs[id][1].path)
    /\ devOp' = "unregister" /\ devRes' = "ok"
    /\ UNCHANGED <<fileInit, held, dpc, cur, devs_info, stage2, nextDev,
                   regBefore, nonDevVars>>

\* stage2, up to DEVICES.lock(): called once, after files management is
\* initialized.
Stage2Begin ==
    /\ dpc = "idle" /\ fileInit /\ stage2 = "none"
    /\ held' = Lock(held, "DEVICES")
    /\ dpc' = "s2_snapshot" /\ stage2' = "running"
    /\ devOp' = "stage2" /\ devRes' = "none"
    /\ UNCHANGED <<devs, devFiles, fileInit, cur, devs_info, nextDev,
                   regBefore, nonDevVars>>

\* stage2, the block under the locks: collects devs_info.
Stage2Snapshot(allocOk) ==
    /\ dpc = "s2_snapshot"
    /\ IF allocOk
       THEN /\ devs_info' = devs_info_of(devs)
            /\ dpc' = "s2_files"
            /\ UNCHANGED <<stage2, devRes>>
       ELSE /\ dpc' = "idle" /\ stage2' = "err" /\ devRes' = "err"
            /\ UNCHANGED devs_info
    /\ held' = Unlock(held, "DEVICES")
    /\ UNCHANGED <<devs, devFiles, fileInit, cur, devOp, nextDev, regBefore,
                   nonDevVars>>

\* stage2, one turn of the loop over devs_info (in the order the HashMap
\* gave, which is any order).
Stage2CreateFile(e, vfsOk) ==
    /\ dpc = "s2_files" /\ e \in devs_info
    /\ LET r == create_file(devFiles, e[1], e[2], e[3], vfsOk)
       IN  IF r.ok
           THEN /\ devFiles' = r.files
                /\ devs_info' = devs_info \ {e}
                /\ UNCHANGED <<dpc, stage2, devRes>>
           ELSE /\ devs_info' = {}
                /\ dpc' = "idle" /\ stage2' = "err" /\ devRes' = "err"
                /\ UNCHANGED devFiles
    /\ UNCHANGED <<devs, fileInit, held, cur, devOp, nextDev, regBefore,
                   nonDevVars>>

\* stage2 returns Ok.
Stage2Return ==
    /\ dpc = "s2_files" /\ devs_info = {}
    /\ dpc' = "idle" /\ stage2' = "ok" /\ devRes' = "ok"
    /\ UNCHANGED <<devs, devFiles, fileInit, held, cur, devs_info, devOp,
                   nextDev, regBefore, nonDevVars>>

NextDev ==
    \/ FileInit
    \/ \E id \in DeviceIDs, path \in DevPaths, mode \in Modes, a \in BOOLEAN :
           Register(id, path, mode, a)
    \/ \E a \in BOOLEAN : RegisterInsert(a)
    \/ \E v \in BOOLEAN : RegisterFile(v)
    \/ \E id \in DeviceIDs : Unregister(id)
    \/ Stage2Begin
    \/ \E a \in BOOLEAN : Stage2Snapshot(a)
    \/ \E e \in devs_info, v \in BOOLEAN : Stage2CreateFile(e, v)
    \/ Stage2Return

SpecDev == InitDev /\ [][NextDev]_vars

(***************************************************************************)
(* The memory space (src/process/mem_space/mod.rs). Addresses are counted  *)
(* in pages from memory::ALLOC_BEGIN: the user range [ALLOC_BEGIN,         *)
(* PROCESS_END) is the pages 0 .. MemPages - 1. A gap is <<begin, size>>,  *)
(* an entry of gaps_size is <<size, begin>>, a mapping is [begin, size,    *)
(* flags].                                                                 *)
(***************************************************************************)
MemPages == 4
MaxMsCalls == 3
MAPPING_FLAG_WRITE == 1
MAPPING_FLAG_USER == 4

MsPages == 0 .. (MemPages - 1)
MsFlags == {0, MAPPING_FLAG_WRITE, MAPPING_FLAG_USER,
            MAPPING_FLAG_WRITE + MAPPING_FLAG_USER}
HasFlag(flags, f) == (flags \div f) % 2 = 1
\* A page fault code: the bits PAGE_FAULT_PRESENT, _WRITE and _USER.
FaultCodes == [present : BOOLEAN, write : BOOLEAN, user : BOOLEAN]
\* Where an allocation of map() may fail.
MapFailures == {"none", "mappings_insert", "map_default", "gaps_insert",
                "gaps_size_insert"}

\* The pages of a gap or mapping that begins at b and has n pages.
Range(b, n) == b .. (b + n - 1)

\* MemSpace::gap_insert: inserts into gaps, then into gaps_size; each insert
\* may fail, and a failure of the second leaves the first done.
gap_insert(gs, gsz, gap, fail) ==
    IF fail = "gaps_insert" THEN [ok |-> FALSE, gaps |-> gs, gaps_size |-> gsz]
    ELSE IF fail = "gaps_size_insert"
    THEN [ok |-> FALSE, gaps |-> gs \cup {gap}, gaps_size |-> gsz]
    ELSE [ok |-> TRUE, gaps |-> gs \cup {gap},
          gaps_size |-> gsz \cup {<<gap[2], gap[1]>>}]

\* MemSpace::gap_remove
gap_remove(gs, gsz, gap) ==
    [gaps |-> gs \ {gap}, gaps_size |-> gsz \ {<<gap[2], gap[1]>>}]

\* MemSpace::gap_get: the gaps gaps_size.get_min(size) may lead to, those of
\* the least size that is >= size; none when no gap is large enough.
gap_get(gs, gsz, size) ==
    LET es == {e \in gsz : e[1] >= size}
        mins == {e \in es : \A f \in es : e[1] <= f[1]}
    IN  {g \in gs : \E e \in mins : g[1] = e[2]}

\* MemGap::consume: the gap left after the first `size` pages, if any.
MemGap_consume(gap, size) ==
    IF size < gap[2] THEN Some(<<gap[1] + size, gap[2] - size>>) ELSE None

\* MemSpace::map(None, size, flags) taking the gap `gap` that gap_get gave.
MemSpace_map(gs, gsz, ms, gap, size, flags, fail) ==
    LET mapping == [begin |-> gap[1], size |-> size, flags |-> flags]
        new_gap == MemGap_consume(gap, size)
        same == [res |-> <<"err", "ENOMEM">>, gaps |-> gs, gaps_size |-> gsz,
                 mappings |-> ms]
    IN  IF fail \in {"mappings_insert", "map_default"} THEN same
        ELSE LET i == IF new_gap = None
                      THEN [ok |-> TRUE, gaps |-> gs, gaps_size |-> gsz]
                      ELSE gap_insert(gs, gsz, new_gap[1], fail)
                 r == gap_remove(i.gaps, i.gaps_size, gap)
             IN  IF ~i.ok
                 THEN [same EXCEPT !.gaps = i.gaps, !.gaps_size = i.gaps_size]
                 ELSE [res |-> <<"ok", gap[1]>>, gaps |-> r.gaps,
                       gaps_size |-> r.gaps_size,
                       mappings |-> ms \cup {mapping}]

\* MemSpace::get_mapping_for: the mappings whose range holds the page.
get_mapping_for(ms, page) ==
    {m \in ms : page >= m.begin /\ page < m.begin + m.size}

\* MemSpace::can_access
can_access(ms, ptr, size, user, write) == TRUE

\* handle_page_fault that gives up the retry: Resolved although both
\* attempts failed.
handle_page_fault_NoPanic(ms, pr, page, code, a1, a2) ==
    IF ~code.present \/ get_mapping_for(ms, page) = {}
    THEN [res |-> <<"unresolved">>, present |-> pr, oom |-> 0]
    ELSE [res |-> <<"resolved">>,
          present |-> IF a1 \/ a2 THEN pr \cup {page} ELSE pr,
          oom |-> IF a1 THEN 0 ELSE 1]

\* MemSpace::handle_page_fault; a1 and a2 say whether the first and the
\* second attempt (after oom::kill) of mapping.map(offset) succeed; oom is
\* the number of calls of oom::kill.
handle_page_fault(ms, pr, page, code, a1, a2) ==
    IF ~code.present
    THEN [res |-> <<"unresolved">>, present |-> pr, oom |-> 0]
    ELSE IF get_mapping_for(ms, page) = {}
    THEN [res |-> <<"unresolved">>, present |-> pr, oom |-> 0]
    ELSE IF a1
    THEN [res |-> <<"resolved">>, present |-> pr \cup {page}, oom |-> 0]
    ELSE IF a2
    THEN [res |-> <<"resolved">>, present |-> pr \cup {page}, oom |-> 1]
    ELSE [res |-> <<"panic">>, present |-> pr, oom |-> 1]

\* MemSpace::new: one gap over the whole user range.
InitMs ==
    /\ gaps = {<<0, MemPages>>}
    /\ gaps_size = {<<MemPages, 0>>}
    /\ mappings = {} /\ present = {}
    /\ msOp = "new" /\ msRes = None /\ nMsCalls = 0 /\ oom_kills = 0
    /\ VMemIdle /\ FdIdle /\ DevIdle /\ FkIdle /\ VecIdle /\ SwIdle /\ KIdle
    /\ PfIdle /\ PpIdle /\ ItIdle /\ OomIdle /\ LkIdle /\ WvIdle /\ SpIdle
    /\ SockIdle

MsReady == msRes # <<"panic">> /\ nMsCalls < MaxMsCalls

\* map(None, size, flags)
MsMap(size, flags, fail) ==
    /\ MsReady
    /\ IF gap_get(gaps, gaps_size, size) = {}
       THEN /\ msRes' = <<"err", "ENOMEM">>
            /\ UNCHANGED <<gaps, gaps_size, mappings>>
       ELSE \E gap \in gap_get(gaps, gaps_size, size) :
              LET r == MemSpace_map(gaps, gaps_size, mappings, gap, size,
                                    flags, fail)
              IN  /\ msRes' = r.res
                  /\ gaps' = r.gaps /\ gaps_size' = r.gaps_size
                  /\ mappings' = r.mappings
    /\ msOp' = "map" /\ nMsCalls' = nMsCalls + 1
    /\ UNCHANGED <<present, oom_kills, nonMsVars>>

\* map(Some(ptr), ..) and unmap(..): todo!(), the kernel panics.
MsTodo(op) ==
    /\ MsReady
    /\ msOp' = op /\ msRes' = <<"panic">> /\ nMsCalls' = nMsCalls + 1
    /\ UNCHANGED <<gaps, gaps_size, mappings, present, oom_kills, nonMsVars>>

\* can_access(ptr, size, user, write), ptr and size in bytes from
\* ALLOC_BEGIN.
MsCanAccess(ptr, size, user, write) ==
    /\ MsReady
    /\ msOp' = "can_access"
    /\ msRes' = <<"bool", can_access(mappings, ptr, size, user, write)>>
    /\ nMsCalls' = nMsCalls + 1
    /\ UNCHANGED <<gaps, gaps_size, mappings, present, oom_kills, nonMsVars>>

\* handle_page_fault(virt_addr, code), virt_addr in the page `page`.
MsPageFault(page, code, a1, a2) ==
    /\ MsReady
    /\ LET r == handle_page_fault(mappings, present, page, code, a1, a2)
       IN  /\ msRes' = r.res /\ present' = r.present
           /\ oom_kills' = oom_kills + r.oom
    /\ msOp' = "handle_page_fault" /\ nMsCalls' = nMsCalls + 1
    /\ UNCHANGED <<gaps, gaps_size, mappings, nonMsVars>>

AccessPtrs == {p * PAGE_SIZE : p \in 0 .. MemPages}
AccessSizes == {1, PAGE_SIZE + 1}

NextMs ==
    \/ \E size \in 1 .. MemPages, flags \in MsFlags, fail \in MapFailures :
           MsMap(size, flags, fail)
    \/ \E op \in {"map_at", "unmap"} : MsTodo(op)
    \/ \E ptr \in AccessPtrs, size \in AccessSizes, u \in BOOLEAN,
          w \in BOOLEAN : MsCanAccess(ptr, size, u, w)
    \/ \E page \in 0 .. MemPages, code \in FaultCodes, a1 \in BOOLEAN,
          a2 \in BOOLEAN : MsPageFault(page, code, a1, a2)

SpecMs == InitMs /\ [][NextMs]_vars

(***************************************************************************)
(* Forking a memory space (MemSpace::do_fork). Two memory spaces, the      *)
(* parent and the child fork gives; each has its gaps, its mappings and    *)
(* its page table pt: page -> None or <<frame, writable>>. ref_counter is  *)
(* PHYSICAL_REF_COUNTER: frame -> number of references (0: free).          *)
(***************************************************************************)
MaxFrames == 3
MaxFkCalls == 4
MaxForkMap == 2
MAPPING_FLAG_SHARED == 16

Frames == 1 .. MaxFrames
Spaces == {"parent", "child"}
FkFlags == {0, MAPPING_FLAG_WRITE, MAPPING_FLAG_WRITE + MAPPING_FLAG_SHARED}
NoPages == [p \in MsPages |-> None]
NoSpace == [alive |-> FALSE, gaps |-> {}, gaps_size |-> {}, mappings |-> {},
            pt |-> NoPages]

\* The materialized pages of a space, and the frame of one.
Materialized(sp) == {p \in MsPages : sp.pt[p] # None}
FrameOf(sp, p) == sp.pt[p][1]
FreeFrames(rc) == {f \in Frames : rc[f] = 0}

\* MemMapping::get_vmem_flags: a page is writable if its mapping is, unless
\* the mapping is private and the frame is shared (copy on write).
CowWritable(flags, count) ==
    /\ HasFlag(flags, MAPPING_FLAG_WRITE)
    /\ (HasFlag(flags, MAPPING_FLAG_SHARED) \/ count <= 1)

\* MemMapping::update_vmem: installs the flags of the page again.
update_vmem(sp, rc, page) ==
    IF sp.pt[page] = None THEN sp
    ELSE [sp EXCEPT !.pt[page] =
            <<FrameOf(sp, page),
              \E m \in get_mapping_for(sp.mappings, page) :
                  CowWritable(m.flags, rc[FrameOf(sp, page)])>>]

\* Whether MemMapping::map(offset) has a frame to allocate: the page is not
\* materialized, or it is a private writable page on a shared frame.
NeedsFrame(sp, rc, page) ==
    \/ sp.pt[page] = None
    \/ /\ rc[FrameOf(sp, page)] > 1
       /\ \E m \in get_mapping_for(sp.mappings, page) :
              /\ HasFlag(m.flags, MAPPING_FLAG_WRITE)
              /\ ~HasFlag(m.flags, MAPPING_FLAG_SHARED)

\* MemMapping::map(offset) with the frame f the allocator gives: materializes
\* the page, or moves it from the shared frame to f.
MemMapping_map(sp, rc, page, f) ==
    IF ~NeedsFrame(sp, rc, page) THEN [sp |-> sp, rc |-> rc]
    ELSE IF sp.pt[page] = None
    THEN [sp |-> [sp EXCEPT !.pt[page] = <<f, FALSE>>],
          rc |-> [rc EXCEPT ![f] = 1]]
    ELSE [sp |-> [sp EXCEPT !.pt[page] = <<f, FALSE>>],
          rc |-> [rc EXCEPT ![FrameOf(sp, page)] = @ - 1, ![f] = 1]]

\* The references a fork adds: one per materialized page of each mapping.
ForkedRefs(sp, rc) ==
    [f \in Frames |->
        rc[f] + Cardinality({p \in Materialized(sp) : FrameOf(sp, p) = f})]

RECURSIVE UpdateAll(_, _, _)
\* update_vmem(i) on every page of the set.
UpdateAll(sp, rc, pages) ==
    IF pages = {} THEN sp
    ELSE LET p == CHOOSE q \in pages : TRUE
         IN  UpdateAll(update_vmem(sp, rc, p), rc, pages \ {p})

\* do_fork that leaves the reference counter alone.
do_fork_NoIncrement(sp, rc) ==
    [parent |-> sp, child |-> sp, rc |-> rc]

\* MemSpace::do_fork: clones gaps and gaps_size and the page table, forks
\* every mapping (one more reference on each materialized frame) and
\* updates the page's flags in both spaces.
do_fork(sp, rc) ==
    LET rc2 == ForkedRefs(sp, rc)
        child == [alive |-> TRUE, gaps |-> sp.gaps,
                  gaps_size |-> sp.gaps_size, mappings |-> sp.mappings,
                  pt |-> sp.pt]
    IN  [parent |-> UpdateAll(sp, rc2, MsPages),
         child |-> UpdateAll(child, rc2, MsPages), rc |-> rc2]

\* MemSpace::new for the parent; no child yet.
InitFk ==
    /\ spaces = [s \in Spaces |->
                   IF s = "parent"
                   THEN [NoSpace EXCEPT !.alive = TRUE,
                                        !.gaps = {<<0, MemPages>>},
                                        !.gaps_size = {<<MemPages, 0>>}]
                   ELSE NoSpace]
    /\ ref_counter = [f \in Frames |-> 0]
    /\ fkOp = <<"new">> /\ fkRes = None /\ nFkCalls = 0
    /\ DevIdle /\ FdIdle /\ MsIdle /\ VMemIdle /\ VecIdle /\ SwIdle /\ KIdle
    /\ PfIdle /\ PpIdle /\ ItIdle /\ OomIdle /\ LkIdle /\ WvIdle /\ SpIdle
    /\ SockIdle

FkReady(s) ==
    spaces[s].alive /\ fkRes # <<"panic">> /\ nFkCalls < MaxFkCalls

\* map(None, size, flags) on the space s.
FkMap(s, size, flags) ==
    /\ FkReady(s)
    /\ LET sp == spaces[s]
       IN  IF gap_get(sp.gaps, sp.gaps_size, size) = {}
           THEN fkRes' = <<"err", "ENOMEM">> /\ UNCHANGED spaces
           ELSE \E gap \in gap_get(sp.gaps, sp.gaps_size, size) :
                  LET r == MemSpace_map(sp.gaps, sp.gaps_size, sp.mappings,
                                        gap, size, flags, "none")
                  IN  /\ fkRes' = r.res
                      /\ spaces' = [spaces EXCEPT
                            ![s] = [sp EXCEPT !.gaps = r.gaps,
                                              !.gaps_size = r.gaps_size,
                                              !.mappings = r.mappings]]
    /\ fkOp' = <<"map", s>> /\ nFkCalls' = nFkCalls + 1
    /\ UNCHANGED <<ref_counter, nonFkVars>>

\* handle_page_fault(virt_addr, code) on the space s; the allocator gives
\* the frame f, or fails when no frame is free.
FkPageFault(s, page, code, f) ==
    /\ FkReady(s)
    /\ page \in MsPages
    /\ f \in FreeFrames(ref_counter) \/ (FreeFrames(ref_counter) = {} /\ f = 1)
    /\ LET sp == spaces[s]
           ok == ~NeedsFrame(sp, ref_counter, page)
                 \/ FreeFrames(ref_counter) # {}
           r == handle_page_fault(sp.mappings, Materialized(sp), page, code,
                                  ok, ok)
           m == MemMapping_map(sp, ref_counter, page, f)
       IN  /\ fkRes' = r.res
           /\ IF r.res = <<"resolved">>
              THEN /\ spaces' = [spaces EXCEPT
                                   ![s] = update_vmem(m.sp, m.rc, page)]
                   /\ ref_counter' = m.rc
              ELSE UNCHANGED <<spaces, ref_counter>>
    /\ fkOp' = <<"handle_page_fault", s, page, code.write>>
    /\ nFkCalls' = nFkCalls + 1
    /\ UNCHANGED nonFkVars

\* fork() on the parent; allocOk says whether its allocations succeed.
FkFork(allocOk) ==
    /\ FkReady("parent") /\ ~spaces["child"].alive
    /\ IF allocOk
       THEN LET r == do_fork(spaces["parent"], ref_counter)
            IN  /\ spaces' = [spaces EXCEPT !["parent"] = r.parent,
                                            !["child"] = r.child]
                /\ ref_counter' = r.rc
                /\ fkRes' = <<"ok">>
       ELSE /\ fkRes' = <<"err", "ENOMEM">>
            /\ UNCHANGED <<spaces, ref_counter>>
    /\ fkOp' = <<"fork">> /\ nFkCalls' = nFkCalls + 1
    /\ UNCHANGED nonFkVars

NextFk ==
    \/ \E s \in Spaces, size \in 1 .. MaxForkMap, flags \in FkFlags :
           FkMap(s, size, flags)
    \/ \E s \in Spaces, page \in MsPages, code \in FaultCodes, f \in Frames :
           FkPageFault(s, page, code, f)
    \/ \E allocOk \in BOOLEAN : FkFork(allocOk)

SpecFk == InitFk /\ [][NextFk]_vars

(***************************************************************************)
(* Vec::retain (src/util/collections/vec.rs). The vector is the sequence   *)
(* of its elements, index i of the code being position i + 1; an element   *)
(* that was dropped in place reads as Dropped. The closure f is given by   *)
(* what it returns at each index.                                          *)
(***************************************************************************)
MaxVecLen == 4
MaxVecCalls == 1

VecElems == 1 .. MaxVecLen
Dropped == 0
KeepPatterns == [1 .. MaxVecLen -> BOOLEAN]

\* ptr::copy that copies nothing.
ptr_copy_Nothing(data, src, dst, count) == data

\* ptr::copy(src, dst, count) inside the buffer: count elements from index
\* src to index dst, the regions may overlap.
ptr_copy(data, src, dst, count) ==
    [j \in 1 .. Len(data) |->
        IF j - 1 >= dst /\ j - 1 < dst + count
        THEN data[(j - 1 - dst) + src + 1]
        ELSE data[j]]

RECURSIVE RetainLoop(_, _, _, _, _, _, _, _)
\* The loop `for i in 0..=len` of retain, from i on.
RetainLoop(data, len, f, i, deleted, kept, new_len, calls) ==
    IF i > len THEN [data |-> data, len |-> new_len, calls |-> calls]
    ELSE LET keep == IF i < len THEN f[i + 1] ELSE FALSE
             calls2 == IF i < len THEN Append(calls, <<i, data[i + 1]>>)
                       ELSE calls
             data1 == IF i < len /\ ~keep
                      THEN [data EXCEPT ![i + 1] = Dropped] ELSE data
             shift == kept > 0 /\ deleted > 0 /\ ~keep
             data2 == IF shift
                      THEN ptr_copy(data1, i - kept, i - kept - deleted, kept)
                      ELSE data1
             kept1 == IF shift THEN 0 ELSE kept
         IN  IF ~keep
             THEN RetainLoop(data2, len, f, i + 1, deleted + 1, kept1,
                             new_len, calls2)
             ELSE RetainLoop(data2, len, f, i + 1, deleted,
                             IF deleted > 0 THEN kept1 + 1 ELSE kept1,
                             new_len + 1, calls2)

\* Vec::retain on the elements v; alloc says whether the vector has a
\* buffer (self.data is Some).
Vec_retain(v, alloc, f) ==
    IF ~alloc THEN [vec |-> v, calls |-> <<>>]
    ELSE LET r == RetainLoop(v, Len(v), f, 0, 0, 0, 0, <<>>)
         IN  [vec |-> SubSeq(r.data, 1, r.len), calls |-> r.calls]

\* Any vector of at most MaxVecLen elements; an empty one with or without
\* a buffer.
InitVec ==
    /\ \E n \in 0 .. MaxVecLen : vec \in [1 .. n -> VecElems]
    /\ vecAlloc \in BOOLEAN
    /\ vec # <<>> => vecAlloc
    /\ fcalls = <<>> /\ vecOp = "new" /\ nVecCalls = 0
    /\ DevIdle /\ FdIdle /\ FkIdle /\ MsIdle /\ VMemIdle /\ SwIdle /\ KIdle
    /\ PfIdle /\ PpIdle /\ ItIdle /\ OomIdle /\ LkIdle /\ WvIdle /\ SpIdle
    /\ SockIdle

\* v.retain(f)
VecRetain(f) ==
    /\ nVecCalls < MaxVecCalls
    /\ LET r == Vec_retain(vec, vecAlloc, f)
       IN  vec' = r.vec /\ fcalls' = r.calls
    /\ vecOp' = "retain" /\ nVecCalls' = nVecCalls + 1
    /\ UNCHANGED <<vecAlloc, nonVecVars>>

NextVec == \E f \in KeepPatterns : VecRetain(f)

SpecVec == InitVec /\ [][NextVec]_vars

(***************************************************************************)
(* vmem::switch (kernel/src/memory/vmem/mod.rs). The CPU has the register  *)
(* cr3 (the page directory bound) and the interrupt flag. A call of switch *)
(* that has not returned is a frame of swStack: the context it was given,  *)
(* the page_dir it saved (None when the context was already bound), the    *)
(* interrupt flag wrap_disable_interrupts saved, and cr3 as it was before  *)
(* the call. The closure f may call switch again.                          *)
(***************************************************************************)
MaxRoots == 3
MaxDepth == 3

Roots == 1 .. MaxRoots

\* leaving switch without binding the saved page directory again.
switch_return_NoRestore(frame, root) == root

\* switch, after f: x86::bind(page_dir) if the context had to be bound.
switch_return(frame, root) ==
    IF frame.page_dir = None THEN root ELSE frame.page_dir[1]

\* switch, before f: the frame of the call and the page directory bound.
switch_call(vmem, root, int) ==
    [frame |-> [vmem |-> vmem,
                page_dir |-> IF root = vmem THEN None ELSE Some(root),
                int |-> int, before |-> root],
     cr3 |-> vmem]

InitSw ==
    /\ cr3 \in Roots /\ interrupts \in BOOLEAN
    /\ swStack = <<>> /\ swOp = "boot"
    /\ DevIdle /\ FdIdle /\ FkIdle /\ MsIdle /\ VMemIdle /\ VecIdle /\ KIdle
    /\ PfIdle /\ PpIdle /\ ItIdle /\ OomIdle /\ LkIdle /\ WvIdle /\ SpIdle
    /\ SockIdle

\* VMem::bind outside of switch.
SwBind(vmem) ==
    /\ swStack = <<>>
    /\ cr3' = vmem /\ swOp' = "bind"
    /\ UNCHANGED <<interrupts, swStack, nonSwVars>>

\* cli / sti outside of switch.
SwSetInterrupts(on) ==
    /\ swStack = <<>>
    /\ interrupts' = on /\ swOp' = "interrupts"
    /\ UNCHANGED <<cr3, swStack, nonSwVars>>

\* switch(vmem, f) up to the call of f: interrupts disabled, vmem bound.
SwitchCall(vmem) ==
    /\ Len(swStack) < MaxDepth
    /\ LET r == switch_call(vmem, cr3, interrupts)
       IN  /\ swStack' = Append(swStack, r.frame)
           /\ cr3' = r.cr3
    /\ interrupts' = FALSE
    /\ swOp' = "call"
    /\ UNCHANGED nonSwVars

\* f returns: the innermost switch restores the page directory and the
\* interrupt flag and returns.
SwitchReturn ==
    /\ swStack # <<>>
    /\ LET frame == swStack[Len(swStack)]
       IN  /\ cr3' = switch_return(frame, cr3)
           /\ interrupts' = frame.int
    /\ swStack' = SubSeq(swStack, 1, Len(swStack) - 1)
    /\ swOp' = "return"
    /\ UNCHANGED nonSwVars

NextSw ==
    \/ \E vmem \in Roots : SwBind(vmem)
    \/ \E on \in BOOLEAN : SwSetInterrupts(on)
    \/ \E vmem \in Roots : SwitchCall(vmem)
    \/ SwitchReturn

SpecSw == InitSw /\ [][NextSw]_vars

(***************************************************************************)
(* vmem::init (kernel/src/memory/vmem/mod.rs): the kernel's page table.    *)
(* Kernelspace is the pages 0 .. MaxKPages - 1 counted from PROCESS_END. A *)
(* section of the kernel's ELF is [page, pages, aligned, write, user]: its *)
(* first page (-1: an address below kernelspace, kernel_to_physical is     *)
(* None), its size in pages, whether sh_addralign is PAGE_SIZE, whether    *)
(* sh_flags has SHF_WRITE, whether its name is .user. kpt gives the flags  *)
(* of each page of KERNEL_VMEM.                                            *)
(***************************************************************************)
MaxKPages == 4
MaxSections == 2
VgaPage == 0

KPages == 0 .. (MaxKPages - 1)
Sections ==
    {s \in [page : -1 .. (MaxKPages - 1), pages : 1 .. 2, aligned : BOOLEAN,
            write : BOOLEAN, user : BOOLEAN] :
        s.page + s.pages <= MaxKPages}

\* The pages of a section.
SectionPages(s) == {p \in KPages : p >= s.page /\ p < s.page + s.pages}

\* init's section flags with FLAG_WRITE on every section.
section_flags_AllWrite(s) ==
    {"GLOBAL", "WRITE"} \cup (IF s.user THEN {"USER"} ELSE {})

\* init: the flags a section is mapped with.
section_flags(s) ==
    {"GLOBAL"} \cup (IF s.write THEN {"WRITE"} ELSE {})
               \cup (IF s.user THEN {"USER"} ELSE {})

\* VMemTransaction::map_range on the kernel's context: the pages get the
\* flags.
kernel_map_range(pt, pages, flags) ==
    [p \in KPages |-> IF p \in pages THEN flags ELSE pt[p]]

RECURSIVE MapSections(_, _, _)
\* init's loop over the page-aligned sections, from the i-th on.
MapSections(pt, secs, i) ==
    IF i > Len(secs) THEN pt
    ELSE LET s == secs[i]
         IN  IF ~s.aligned \/ s.page < 0
             THEN MapSections(pt, secs, i + 1)
             ELSE MapSections(kernel_map_range(pt, SectionPages(s),
                                               section_flags(s)),
                              secs, i + 1)

\* init: maps kernelspace, then the sections, then the VGA buffer.
vmem_init(secs) ==
    LET all == kernel_map_range([p \in KPages |-> {}], KPages,
                                {"WRITE", "GLOBAL"})
        withSections == MapSections(all, secs, 1)
    IN  kernel_map_range(withSections, {VgaPage},
            {"CACHE_DISABLE", "WRITE_THROUGH", "WRITE", "GLOBAL"})

\* Before init: any section table.
InitK ==
    /\ \E n \in 0 .. MaxSections : sections \in [1 .. n -> Sections]
    /\ kpt = <<>> /\ kinit = "boot"
    /\ DevIdle /\ FdIdle /\ FkIdle /\ MsIdle /\ SwIdle /\ VMemIdle /\ ItIdle
    /\ PfIdle /\ PpIdle /\ VecIdle /\ OomIdle /\ LkIdle /\ WvIdle /\ SpIdle
    /\ SockIdle

\* init(); allocOk says whether every allocation succeeds.
KInit(allocOk) ==
    /\ kinit = "boot"
    /\ IF allocOk
       THEN kpt' = vmem_init(sections) /\ kinit' = "ok"
       ELSE kpt' = kpt /\ kinit' = "err"
    /\ UNCHANGED <<sections, nonKVars>>

NextK == \E allocOk \in BOOLEAN : KInit(allocOk)

SpecK == InitK /\ [][NextK]_vars

(***************************************************************************)
(* Socket::bind (kernel/src/file/buffer/socket.rs). sockname is the        *)
(* socket's name; okBinds counts the binds that returned Ok and firstName  *)
(* keeps the address of the first of them.                                 *)
(***************************************************************************)
MaxAddrLen == 2
MaxSockCalls == 4

SockAddrs == UNION {[1 .. n -> {0, 1}] : n \in 0 .. MaxAddrLen}

\* Socket::is_bound
is_bound(name) == name # <<>>

\* Socket::bind: the result and the name afterwards.
Socket_bind(name, sockaddr, allocOk) ==
    IF is_bound(name) THEN [res |-> <<"err", "EINVAL">>, sockname |-> name]
    ELSE IF ~allocOk THEN [res |-> <<"err", "ENOMEM">>, sockname |-> name]
    ELSE [res |-> <<"ok">>, sockname |-> sockaddr]

\* Socket::new
InitSock ==
    /\ sockname = <<>> /\ okBinds = 0 /\ firstName = None
    /\ sockOp = "new" /\ sockRes = None /\ nSockCalls = 0
    /\ DevIdle /\ FdIdle /\ FkIdle /\ KIdle /\ MsIdle /\ SwIdle /\ VMemIdle
    /\ PfIdle /\ PpIdle /\ ItIdle /\ OomIdle /\ LkIdle /\ WvIdle /\ VecIdle
    /\ SpIdle

\* bind(sockaddr)
SockBind(sockaddr, allocOk) ==
    /\ nSockCalls < MaxSockCalls
    /\ LET r == Socket_bind(sockname, sockaddr, allocOk)
       IN  /\ sockname' = r.sockname /\ sockRes' = r.res
           /\ okBinds' = IF r.res = <<"ok">> THEN okBinds + 1 ELSE okBinds
           /\ firstName' = IF r.res = <<"ok">> /\ okBinds = 0
                           THEN Some(sockaddr) ELSE firstName
    /\ sockOp' = "bind" /\ nSockCalls' = nSockCalls + 1
    /\ UNCHANGED nonSockVars

\* is_bound()
SockIsBound ==
    /\ nSockCalls < MaxSockCalls
    /\ sockOp' = "is_bound" /\ sockRes' = <<"bool", is_bound(sockname)>>
    /\ nSockCalls' = nSockCalls + 1
    /\ UNCHANGED <<sockname, okBinds, firstName, nonSockVars>>

NextSock ==
    \/ \E sockaddr \in SockAddrs, allocOk \in BOOLEAN :
           SockBind(sockaddr, allocOk)
    \/ SockIsBound

SpecSock == InitSock /\ [][NextSock]_vars

(***************************************************************************)
(* splice (kernel/src/syscall/splice.rs) from a pipe to a pipe, without    *)
(* offsets. pipeIn holds the bytes the input pipe has to give, pipeOut the *)
(* bytes written to the output so far. A call is at spPc: "idle" (no       *)
(* call), "write" (in the loop `while i < len`) or "done" (returned); spBuf*)
(* is in_slice, spI is i. spIn0 and spOut0 keep both pipes as they were    *)
(* when the call began.                                                    *)
(***************************************************************************)
MaxPipe == 3
MaxSplices == 2

Bytes == {1, 2}
PipeContents == UNION {[1 .. n -> Bytes] : n \in 0 .. MaxPipe}
Min(a, b) == IF a <= b THEN a ELSE b

\* read_content of a pipe: takes up to len bytes off its front.
pipe_read(pipe, len) ==
    LET n == Min(len, Len(pipe))
    IN  [data |-> SubSeq(pipe, 1, n), rest |-> SubSeq(pipe, n + 1, Len(pipe))]

\* write_content of a pipe that accepts l bytes of the slice it is given.
pipe_write(pipe, slice, l) == pipe \o SubSeq(slice, 1, l)

\* Two pipes, the input one with any content.
InitSp ==
    /\ pipeIn \in PipeContents /\ pipeOut = <<>>
    /\ spPc = "idle" /\ spBuf = <<>> /\ spI = 0 /\ spRes = None
    /\ spIn0 = <<>> /\ spOut0 = <<>> /\ nSplices = 0
    /\ DevIdle /\ FdIdle /\ FkIdle /\ KIdle /\ MsIdle /\ SockIdle /\ SwIdle
    /\ PfIdle /\ PpIdle /\ ItIdle /\ OomIdle /\ LkIdle /\ VMemIdle
    /\ VecIdle /\ WvIdle

\* splice(fd_in, NULL, fd_out, NULL, len, 0) up to the loop: reads the
\* input once into buf.
SpliceRead(len) ==
    /\ spPc \in {"idle", "done"} /\ nSplices < MaxSplices
    /\ LET r == pipe_read(pipeIn, len)
       IN  spBuf' = r.data /\ pipeIn' = r.rest
    /\ spI' = 0 /\ spPc' = "write" /\ spRes' = None
    /\ spIn0' = pipeIn /\ spOut0' = pipeOut
    /\ nSplices' = nSplices + 1
    /\ UNCHANGED <<pipeOut, nonSpVars>>

\* One turn of the loop: write_content(.., in_slice) accepts l bytes.
SpliceWrite(l) ==
    /\ spPc = "write" /\ spI < Len(spBuf)
    /\ l \in 0 .. Len(spBuf)
    /\ Len(pipeOut) + l <= 2 * MaxPipe
    /\ pipeOut' = pipe_write(pipeOut, spBuf, l)
    /\ spI' = spI + l
    /\ UNCHANGED <<pipeIn, spPc, spBuf, spRes, spIn0, spOut0, nSplices,
                   nonSpVars>>

\* The loop is over: Ok(len).
SpliceReturn ==
    /\ spPc = "write" /\ spI >= Len(spBuf)
    /\ spPc' = "done" /\ spRes' = <<"ok", Len(spBuf)>>
    /\ UNCHANGED <<pipeIn, pipeOut, spBuf, spI, spIn0, spOut0, nSplices,
                   nonSpVars>>

NextSp ==
    \/ \E len \in 0 .. (MaxPipe + 1) : SpliceRead(len)
    \/ \E l \in 0 .. MaxPipe : SpliceWrite(l)
    \/ SpliceReturn

SpecSp == InitSp /\ [][NextSp]_vars

(***************************************************************************)
(* do_writev (kernel/src/syscall/writev.rs): the loop of a process writing *)
(* to an open file, next to another thread that drains or fills the file   *)
(* under the open file's lock and wakes the processes of its wait queue.   *)
(* wvPc is the writer's position: "loop" (top of the loop), "attempt"      *)
(* (open file locked, about to write), "enqueue" (the attempt wrote        *)
(* nothing, about to block), "end_tick" (in scheduler::end_tick),          *)
(* "returned".                                                             *)
(***************************************************************************)
MaxAttempts == 3
MaxWrite == 2
MaxOff == 1

\* The open file's lock after an attempt if the guard were dropped at once.
lock_after_attempt_Dropped(len, nonblock) == FALSE

\* Whether the guard open_file is still held after an attempt that wrote
\* len bytes: it is, until the process is enqueued.
lock_after_attempt(len, nonblock) == len = 0 /\ ~nonblock

\* (start_off, update_off) of an offset argument that passed the validation.
start_off(offset, current) ==
    IF offset = None THEN current ELSE offset[1]
update_off(offset) == offset = None

\* The open file's offset after an attempt that wrote len bytes from
\* start: the previous offset is put back unless the offset is to be updated.
offset_after_write(prev_off, start, len, update) ==
    IF update THEN start + len ELSE prev_off

\* do_writev after its validation: a blocking or non-blocking open file,
\* with or without room, an iov of wvTotal bytes and an offset argument.
InitWv ==
    /\ wvRoom \in BOOLEAN /\ wvNonblock \in BOOLEAN
    /\ ofLocked = FALSE /\ inQueue = FALSE /\ sleeping = FALSE
    /\ wvPc = "loop" /\ wvRes = None /\ wvLen = 0 /\ nAttempts = 0
    /\ wvTotal \in 0 .. MaxWrite
    /\ wvOffArg \in {None} \cup {Some(o) : o \in 0 .. MaxOff}
    /\ ofOffset \in 0 .. MaxOff
    /\ wvStart = start_off(wvOffArg, ofOffset)
    /\ wvOff0 = ofOffset
    /\ DevIdle /\ FdIdle /\ FkIdle /\ KIdle /\ MsIdle /\ SockIdle /\ SpIdle
    /\ PfIdle /\ PpIdle /\ ItIdle /\ OomIdle /\ SwIdle /\ VMemIdle
    /\ VecIdle /\ LkIdle

\* loop { let mut open_file = open_file_mutex.lock();
WvLock ==
    /\ wvPc = "loop" /\ ~ofLocked /\ ~sleeping
    /\ ofLocked' = TRUE /\ wvPc' = "attempt"
    /\ UNCHANGED <<wvRoom, wvNonblock, inQueue, sleeping, wvRes, wvLen,
                   nAttempts, wvTotal, wvOffArg, wvStart, ofOffset, wvOff0,
                   nonWvVars>>

\* set_offset(start_off); write(&iov, ..) transfers len bytes: none when the
\* entries are empty or the file has no room, some when it has room; then
\* the offset is put back and len and O_NONBLOCK are checked.
WvAttempt(len) ==
    /\ wvPc = "attempt"
    /\ len <= wvTotal
    /\ len = 0 <=> (wvTotal = 0 \/ ~wvRoom)
    /\ wvLen' = len
    /\ nAttempts' = IF nAttempts < MaxAttempts THEN nAttempts + 1
                    ELSE nAttempts
    /\ ofOffset' = offset_after_write(ofOffset, wvStart, len,
                                      update_off(wvOffArg))
    /\ ofLocked' = lock_after_attempt(len, wvNonblock)
    /\ IF len > 0 THEN wvPc' = "returned" /\ wvRes' = <<"ok", len>>
       ELSE IF wvNonblock
       THEN wvPc' = "returned" /\ wvRes' = <<"err", "EAGAIN">>
       ELSE wvPc' = "enqueue" /\ wvRes' = wvRes
    /\ UNCHANGED <<wvRoom, wvNonblock, inQueue, sleeping, wvTotal, wvOffArg,
                   wvStart, wvOff0, nonWvVars>>

\* set_offset(start_off); write fails after `part` bytes (EFAULT from a
\* copy from the user, EPIPE from a write to the file): the error is
\* returned at once (after SIGPIPE on EPIPE).
WvError(e, part) ==
    /\ wvPc = "attempt"
    /\ part <= wvTotal /\ (part > 0 => wvRoom)
    /\ e = "EPIPE" => wvTotal > 0
    /\ wvPc' = "returned" /\ wvRes' = <<"err", e>> /\ ofLocked' = FALSE
    /\ nAttempts' = IF nAttempts < MaxAttempts THEN nAttempts + 1
                    ELSE nAttempts
    /\ ofOffset' = wvStart + part
    /\ UNCHANGED <<wvRoom, wvNonblock, inQueue, sleeping, wvLen, wvTotal,
                   wvOffArg, wvStart, wvOff0, nonWvVars>>

\* proc.lock(); open_file.add_waiting_process(&mut proc, POLLOUT | POLLERR)
\* and the end of the block: both guards dropped.
WvEnqueue(allocOk) ==
    /\ wvPc = "enqueue"
    /\ IF allocOk
       THEN /\ inQueue' = TRUE /\ sleeping' = TRUE
            /\ wvPc' = "end_tick" /\ wvRes' = wvRes
       ELSE /\ wvPc' = "returned" /\ wvRes' = <<"err", "ENOMEM">>
            /\ UNCHANGED <<inQueue, sleeping>>
    /\ ofLocked' = FALSE
    /\ UNCHANGED <<wvRoom, wvNonblock, wvLen, nAttempts, wvTotal, wvOffArg,
                   wvStart, ofOffset, wvOff0, nonWvVars>>

\* scheduler::end_tick() returns once the process is not sleeping.
WvEndTick ==
    /\ wvPc = "end_tick" /\ ~sleeping
    /\ wvPc' = "loop"
    /\ UNCHANGED <<wvRoom, wvNonblock, ofLocked, inQueue, sleeping, wvRes,
                   wvLen, nAttempts, wvTotal, wvOffArg, wvStart, ofOffset,
                   wvOff0, nonWvVars>>

\* Another thread, under the open file's lock, makes room in the file and
\* wakes the processes of its wait queue.
OtherDrain ==
    /\ ~ofLocked
    /\ wvRoom' = TRUE /\ inQueue' = FALSE /\ sleeping' = FALSE
    /\ UNCHANGED <<wvNonblock, ofLocked, wvPc, wvRes, wvLen, nAttempts,
                   wvTotal, wvOffArg, wvStart, ofOffset, wvOff0, nonWvVars>>

\* Another thread, under the open file's lock, fills the file.
OtherFill ==
    /\ ~ofLocked /\ wvRoom
    /\ wvRoom' = FALSE
    /\ UNCHANGED <<wvNonblock, ofLocked, inQueue, sleeping, wvPc, wvRes,
                   wvLen, nAttempts, wvTotal, wvOffArg, wvStart, ofOffset,
                   wvOff0, nonWvVars>>

\* The steps of the process that runs do_writev.
WvStep ==
    \/ WvLock
    \/ \E len \in 0 .. MaxWrite : WvAttempt(len)
    \/ \E e \in {"EPIPE", "EFAULT"}, part \in 0 .. MaxWrite : WvError(e, part)
    \/ \E allocOk \in BOOLEAN : WvEnqueue(allocOk)
    \/ WvEndTick

NextWv ==
    \/ WvStep
    \/ OtherDrain
    \/ OtherFill

SpecWv == InitWv /\ [][NextWv]_vars

\* The process is scheduled while it can run, and the file's other users
\* keep draining it, which wakes its wait queue.
SpecWvLive == SpecWv /\ WF_vars(WvStep) /\ WF_vars(OtherDrain)

(***************************************************************************)
(* The locks the system calls take (kernel/src/syscall): each path through *)
(* openat, socket, splice, writev and fchdir is the sequence of its lock   *)
(* and unlock events, a guard being unlocked where it goes out of scope.   *)
(* A lock is named by its kind: "process", "fd_table", "open_file",        *)
(* "file", "mem_space"; the two files of splice are "file" and "file2".    *)
(***************************************************************************)
MaxLoops == 2
MaxLkCalls == 2

L(l) == <<"lock", l>>
U(l) == <<"unlock", l>>
\* The guard of l taken and dropped in one statement or block.
Held(l) == <<L(l), U(l)>>

\* splice: process and descriptor table for the lookup, then the input and
\* the output file one at a time; n turns of the write loop.
RECURSIVE SpliceWrites(_)
SpliceWrites(n) == IF n = 0 THEN <<>> ELSE Held("file2") \o SpliceWrites(n - 1)
splice_paths ==
    LET lookup == <<L("process"), L("fd_table"), U("fd_table"), U("process")>>
        types == Held("file") \o Held("file2")
    IN  {lookup} \cup {lookup \o Held("file")}
        \cup {lookup \o types}
        \cup {lookup \o types \o Held("file") \o SpliceWrites(n) :
                 n \in 0 .. MaxLoops}

\* openat: the process (and its memory space) for the path, then the
\* descriptor table up to the end; inside it the parent directory when the
\* file is created, and the file for handle_flags.
openat_paths ==
    LET proc == <<L("process"), L("mem_space"), U("mem_space"), U("process")>>
    IN  {proc,
         proc \o <<L("fd_table"), U("fd_table")>>,
         proc \o <<L("fd_table")>> \o Held("file") \o <<U("fd_table")>>,
         proc \o <<L("fd_table")>> \o Held("file") \o Held("file")
              \o <<U("fd_table")>>}

\* socket: the process up to the end, the descriptor table inside it.
socket_paths ==
    {<<L("process"), U("process")>>,
     <<L("process"), L("fd_table"), U("fd_table"), U("process")>>}

\* One turn of do_writev's loop that ends in end_tick: the open file, and
\* the process inside it for add_waiting_process.
WritevBlock ==
    <<L("open_file"), L("process"), U("process"), U("open_file")>>
RECURSIVE WritevBlocks(_)
WritevBlocks(n) == IF n = 0 THEN <<>> ELSE WritevBlock \o WritevBlocks(n - 1)

\* do_writev: the descriptor table for the lookup, the open file for the
\* offset (when none is given), the open file and its file for the type,
\* then the loop; its last turn returns a length or EAGAIN (open file
\* only), returns EPIPE (the process inside the open file, for SIGPIPE), or
\* fails in add_waiting_process.
writev_paths ==
    LET lookup == Held("fd_table")
        type == <<L("open_file"), L("file"), U("file"), U("open_file")>>
        heads == {lookup \o type, lookup \o Held("open_file") \o type}
        lasts == {Held("open_file"), WritevBlock}
    IN  {lookup} \cup heads
        \cup {h \o WritevBlocks(n) \o l :
                 h \in heads, n \in 0 .. MaxLoops, l \in lasts}

\* fchdir: the descriptor table and the file inside it in one statement,
\* then the process.
fchdir_paths ==
    {<<L("fd_table"), U("fd_table")>>,
     <<L("fd_table"), L("file"), U("file"), U("fd_table")>>,
     <<L("fd_table"), L("file"), U("file"), U("fd_table")>>
        \o Held("process")}

Syscalls == {"openat", "socket", "splice", "writev", "fchdir"}
PathsOf(sc) ==
    CASE sc = "openat" -> openat_paths
      [] sc = "socket" -> socket_paths
      [] sc = "splice" -> splice_paths
      [] sc = "writev" -> writev_paths
      [] sc = "fchdir" -> fchdir_paths

\* No system call running.
InitLk ==
    /\ lkCall = "none" /\ lkPath = <<>> /\ lkPos = 0 /\ lkHeld = {}
    /\ nLkCalls = 0
    /\ DevIdle /\ FdIdle /\ FkIdle /\ KIdle /\ MsIdle /\ SockIdle /\ SpIdle
    /\ PfIdle /\ PpIdle /\ ItIdle /\ SwIdle /\ VMemIdle /\ VecIdle /\ WvIdle
    /\ OomIdle

\* A system call begins and will follow the path.
LkCall(sc, path) ==
    /\ lkCall = "none" /\ nLkCalls < MaxLkCalls
    /\ lkCall' = sc /\ lkPath' = path /\ lkPos' = 0
    /\ UNCHANGED <<lkHeld, nLkCalls, nonLkVars>>

\* The next lock or unlock of the path.
LkStep ==
    /\ lkCall # "none" /\ lkPos < Len(lkPath)
    /\ LET e == lkPath[lkPos + 1]
       IN  lkHeld' = IF e[1] = "lock" THEN lkHeld \cup {e[2]}
                     ELSE lkHeld \ {e[2]}
    /\ lkPos' = lkPos + 1
    /\ UNCHANGED <<lkCall, lkPath, nLkCalls, nonLkVars>>

\* The system call returns.
LkReturn ==
    /\ lkCall # "none" /\ lkPos = Len(lkPath)
    /\ lkCall' = "none" /\ lkPath' = <<>> /\ lkPos' = 0
    /\ nLkCalls' = nLkCalls + 1
    /\ UNCHANGED <<lkHeld, nonLkVars>>

NextLk ==
    \/ \E sc \in Syscalls : \E path \in PathsOf(sc) : LkCall(sc, path)
    \/ LkStep
    \/ LkReturn

SpecLk == InitLk /\ [][NextLk]_vars


(***************************************************************************)
(* Process::get_oom_score (src/process/mod.rs). uid is the uid field of    *)
(* each process; the score is a u16. The subtraction is unchecked in the   *)
(* source, so what an underflow does depends on the build: with overflow   *)
(* checks the kernel panics, without them the value wraps modulo 2^16.     *)
(***************************************************************************)
MaxProcs == 3
MaxUid == 2
U16 == 65536

OomProcs == 1 .. MaxProcs
Uids == 0 .. MaxUid

\* The value the source's arithmetic denotes, before it is stored in a u16.
oom_score_exact(u) == IF u = 0 THEN 0 - 100 ELSE 0

\* Process::get_oom_score
get_oom_score(u, overflowChecks) ==
    LET score == oom_score_exact(u)
    IN  IF score >= 0 /\ score < U16 THEN <<"ok", score>>
        ELSE IF overflowChecks THEN <<"panic">>
        ELSE <<"ok", score % U16>>

\* Process::new: a process starts owned by the superuser.
InitOom ==
    /\ uid = [p \in OomProcs |-> 0]
    /\ oomOp = <<"new">> /\ oomRes = None
    /\ DevIdle /\ FdIdle /\ FkIdle /\ KIdle /\ LkIdle /\ MsIdle /\ SockIdle
    /\ PfIdle /\ PpIdle /\ ItIdle /\ SpIdle /\ SwIdle /\ VMemIdle /\ VecIdle
    /\ WvIdle

\* set_uid(uid)
OomSetUid(p, u) ==
    /\ uid' = [uid EXCEPT ![p] = u]
    /\ oomOp' = <<"set_uid", p>> /\ oomRes' = None
    /\ UNCHANGED nonOomVars

\* get_oom_score()
OomScore(p, overflowChecks) ==
    /\ oomOp' = <<"get_oom_score", p>>
    /\ oomRes' = get_oom_score(uid[p], overflowChecks)
    /\ UNCHANGED <<uid, nonOomVars>>

NextOom ==
    \/ \E p \in OomProcs, u \in Uids : OomSetUid(p, u)
    \/ \E p \in OomProcs, overflowChecks \in BOOLEAN :
           OomScore(p, overflowChecks)

SpecOom == InitOom /\ [][NextOom]_vars


(***************************************************************************)
(* The consuming iterator of Vec (src/util/collections/vec.rs) as a state  *)
(* machine: one IntoIter, on which next and next_back are called in any    *)
(* order. itFront and itBack are history variables: the items that next    *)
(* and next_back returned, in the order they were returned.                *)
(***************************************************************************)
MaxItLen == 3

ItElems == 1 .. MaxItLen

\* vec.into_iter()
InitIt ==
    /\ \E n \in 0 .. MaxItLen : \E v \in [1 .. n -> ItElems] :
           iter = into_iter(v)
    /\ itFront = <<>> /\ itBack = <<>> /\ itOp = "into_iter"
    /\ DevIdle /\ FdIdle /\ FkIdle /\ KIdle /\ LkIdle /\ MsIdle /\ OomIdle
    /\ PfIdle /\ PpIdle /\ SockIdle /\ SpIdle /\ SwIdle /\ VMemIdle
    /\ VecIdle /\ WvIdle

\* it.next()
ItNext ==
    /\ LET r == IntoIter_next(iter)
       IN  /\ iter' = r.it
           /\ itFront' = IF r.item = None THEN itFront
                         ELSE Append(itFront, r.item[1])
           /\ itOp' = IF r.item = None THEN "next_none" ELSE "next"
    /\ UNCHANGED <<itBack, nonItVars>>

\* it.next_back()
ItNextBack ==
    /\ LET r == IntoIter_next_back(iter)
       IN  /\ iter' = r.it
           /\ itBack' = IF r.item = None THEN itBack
                        ELSE Append(itBack, r.item[1])
           /\ itOp' = IF r.item = None THEN "next_back_none" ELSE "next_back"
    /\ UNCHANGED <<itFront, nonItVars>>

NextIt ==
    \/ ItNext
    \/ ItNextBack

SpecIt == InitIt /\ [][NextIt]_vars


(***************************************************************************)
(* The pipe2 system call (src/syscall/pipe2.rs) over the descriptors of a  *)
(* process (src/process/mod.rs): file_descriptors is the process's Vec of  *)
(* descriptors, sorted by id; a descriptor is <<id, access>>. pipefd is    *)
(* the user's array. The user pointer, the pipe buffer and                 *)
(* FileDescriptor::new may each fail; the model takes their outcomes as    *)
(* inputs.                                                                 *)
(***************************************************************************)
Min2(S) == CHOOSE x \in S : \A y \in S : x <= y

\* Process::get_available_fd
Process_get_available_fd(fdv) ==
    LET before == {i \in 0 .. (Len(fdv) - 1) : i < fdv[i + 1][1]}
    IN  IF fdv = <<>> THEN <<"ok", 0>>
        ELSE IF before # {} THEN <<"ok", Min2(before)>>
        ELSE IF Len(fdv) < OPEN_MAX THEN <<"ok", Len(fdv)>>
        ELSE <<"err", "EMFILE">>

\* Vec::insert(index, value), index counted from 0.
Vec_insert(v, index, value) ==
    SubSeq(v, 1, index) \o <<value>> \o SubSeq(v, index + 1, Len(v))

\* Process::create_fd: newOk and insertOk are the outcomes of
\* FileDescriptor::new and of the vector's insertion.
Process_create_fd(fdv, access, newOk, insertOk) ==
    LET a == Process_get_available_fd(fdv)
        id == a[2]
        index == Cardinality({k \in 1 .. Len(fdv) : fdv[k][1] < id})
    IN  IF a[1] # "ok" THEN [res |-> a, fds |-> fdv]
        ELSE IF ~newOk THEN [res |-> <<"err", "ENOMEM">>, fds |-> fdv]
        ELSE IF \E k \in 1 .. Len(fdv) : fdv[k][1] = id
        THEN [res |-> <<"panic">>, fds |-> fdv]
        ELSE IF ~insertOk THEN [res |-> <<"err", "ENOMEM">>, fds |-> fdv]
        ELSE [res |-> <<"ok", id>>,
              fds |-> Vec_insert(fdv, index, <<id, access>>)]

\* Process::close_fd
Process_close_fd(fdv, id) ==
    IF \E k \in 1 .. Len(fdv) : fdv[k][1] = id
    THEN [res |-> <<"ok", 0>>,
          fds |-> SelectSeq(fdv, LAMBDA fd : fd[1] # id)]
    ELSE [res |-> <<"err", "EBADF">>, fds |-> fdv]

\* pipe2: in.flagsOk, in.ptrOk and in.bufOk are the outcomes of the flags
\* check, of pipefd.get_mut and of the creation of the pipe; in.new and
\* in.ins those of the two create_fd.
pipe2(fdv, arr, in) ==
    LET fd0 == Process_create_fd(fdv, "O_RDONLY", in.new[1], in.ins[1])
        arr0 == [arr EXCEPT ![1] = fd0.res[2]]
        fd1 == Process_create_fd(fd0.fds, "O_WRONLY", in.new[2], in.ins[2])
        arr1 == [arr0 EXCEPT ![2] = fd1.res[2]]
    IN  IF ~in.flagsOk THEN [res |-> <<"err", "EINVAL">>, fds |-> fdv, pipefd |-> arr]
        ELSE IF ~in.ptrOk THEN [res |-> <<"err", "EFAULT">>, fds |-> fdv, pipefd |-> arr]
        ELSE IF ~in.bufOk THEN [res |-> <<"err", "ENOMEM">>, fds |-> fdv, pipefd |-> arr]
        ELSE IF fd0.res[1] # "ok" THEN [res |-> fd0.res, fds |-> fd0.fds, pipefd |-> arr]
        ELSE IF fd1.res[1] # "ok" THEN [res |-> fd1.res, fds |-> fd1.fds, pipefd |-> arr0]
        ELSE [res |-> <<"ok", 0>>, fds |-> fd1.fds, pipefd |-> arr1]

Pipe2Inputs ==
    [flagsOk : BOOLEAN, ptrOk : BOOLEAN, bufOk : BOOLEAN,
     new : [1 .. 2 -> BOOLEAN], ins : [1 .. 2 -> BOOLEAN]]

\* Process::new: no descriptor; the user's array holds no descriptor id.
InitPp ==
    /\ file_descriptors = <<>>
    /\ pipefd = <<-1, -1>>
    /\ ppOp = "new" /\ ppRes = None
    /\ DevIdle /\ FdIdle /\ FkIdle /\ ItIdle /\ KIdle /\ LkIdle /\ MsIdle
    /\ PfIdle /\ OomIdle /\ SockIdle /\ SpIdle /\ SwIdle /\ VMemIdle
    /\ VecIdle /\ WvIdle

\* pipe2(pipefd, flags)
PpPipe2(in) ==
    /\ ppRes # <<"panic">>
    /\ LET r == pipe2(file_descriptors, pipefd, in)
       IN  /\ file_descriptors' = r.fds /\ pipefd' = r.pipefd
           /\ ppRes' = r.res
    /\ ppOp' = "pipe2"
    /\ UNCHANGED nonPpVars

\* close(fd)
PpCloseFd(id) ==
    /\ ppRes # <<"panic">>
    /\ LET r == Process_close_fd(file_descriptors, id)
       IN  file_descriptors' = r.fds /\ ppRes' = r.res
    /\ ppOp' = "close"
    /\ UNCHANGED <<pipefd, nonPpVars>>

NextPp ==
    \/ \E in \in Pipe2Inputs : PpPipe2(in)
    \/ \E id \in 0 .. OPEN_MAX : PpCloseFd(id)

SpecPp == InitPp /\ [][NextPp]_vars


(***************************************************************************)
(* Process::fork and Drop for Process (src/process/mod.rs). pids is the    *)
(* set of PIDs the PID manager holds as used, children the parent's sorted *)
(* list of children and sched the processes the scheduler holds. The       *)
(* parent is process ParentPid; failAt names the step of fork that fails.  *)
(***************************************************************************)
MaxPids == 5
ParentPid == 1

Pids == 1 .. MaxPids
ForkSteps == {"none", "mem_space", "cwd", "file_descriptors",
              "signals_bitfield", "ldt", "add_child", "add_process"}

\* PIDManager::get_unique_pid: a PID that is not used, which becomes used.
get_unique_pid(used) ==
    IF Pids \ used = {} THEN [res |-> <<"err", "ENOMEM">>, used |-> used]
    ELSE LET pid == CHOOSE p \in Pids \ used : \A q \in Pids \ used : p <= q
         IN  [res |-> <<"ok", pid>>, used |-> used \cup {pid}]

\* PIDManager::release_pid
release_pid(used, pid) == used \ {pid}

\* Process::add_child: inserts the PID at its place in the sorted list.
add_child(ch, pid, allocOk) ==
    IF ~allocOk THEN [ok |-> FALSE, children |-> ch]
    ELSE [ok |-> TRUE,
          children |-> Vec_insert(ch, Cardinality({k \in 1 .. Len(ch) :
                                                      ch[k] < pid}), pid)]

\* Process::remove_child: removes the PID where the binary search finds it.
remove_child(ch, pid) ==
    IF \E k \in 1 .. Len(ch) : ch[k] = pid
    THEN LET i == CHOOSE k \in 1 .. Len(ch) : ch[k] = pid
         IN  SubSeq(ch, 1, i - 1) \o SubSeq(ch, i + 1, Len(ch))
    ELSE ch

\* Drop for Process, for a process that has a parent and is not init.
Process_drop(s, pid) ==
    [s EXCEPT !.children = remove_child(s.children, pid),
              !.pids = release_pid(s.pids, pid)]

\* Process::fork on s = [pids, children, sched]. The steps before the
\* Process value exists return with `?`; from add_child on, the value is
\* dropped when the function returns an error.
Process_fork(s, failAt) ==
    LET u == get_unique_pid(s.pids)
        pid == u.res[2]
        s1 == [s EXCEPT !.pids = u.used]
        c == add_child(s1.children, pid, failAt # "add_child")
        s2 == [s1 EXCEPT !.children = c.children]
    IN  IF u.res[1] # "ok" THEN [res |-> u.res, s |-> s]
        ELSE IF failAt \in {"mem_space", "cwd", "file_descriptors",
                            "signals_bitfield", "ldt"}
        THEN [res |-> <<"err", "ENOMEM">>, s |-> s1]
        ELSE IF ~c.ok
        THEN [res |-> <<"err", "ENOMEM">>, s |-> Process_drop(s1, pid)]
        ELSE IF failAt = "add_process"
        THEN [res |-> <<"err", "ENOMEM">>, s |-> Process_drop(s2, pid)]
        ELSE [res |-> <<"ok", pid>>,
              s |-> [s2 EXCEPT !.sched = s2.sched \cup {pid}]]

PfState == [pids |-> pids, children |-> children, sched |-> sched]

\* The parent runs; it has no child.
InitPf ==
    /\ pids = {ParentPid} /\ children = <<>> /\ sched = {ParentPid}
    /\ pfOp = "new" /\ pfRes = None
    /\ DevIdle /\ FdIdle /\ FkIdle /\ ItIdle /\ KIdle /\ LkIdle /\ MsIdle
    /\ OomIdle /\ PpIdle /\ SockIdle /\ SpIdle /\ SwIdle /\ VMemIdle
    /\ VecIdle /\ WvIdle

\* fork()
PfFork(failAt) ==
    /\ LET r == Process_fork(PfState, failAt)
       IN  /\ pids' = r.s.pids /\ children' = r.s.children
           /\ sched' = r.s.sched /\ pfRes' = r.res
    /\ pfOp' = "fork"
    /\ UNCHANGED nonPfVars

\* A child is removed from the scheduler and dropped.
PfRemove(pid) ==
    /\ pid \in sched \ {ParentPid}
    /\ LET s == Process_drop(PfState, pid)
       IN  pids' = s.pids /\ children' = s.children
    /\ sched' = sched \ {pid}
    /\ pfOp' = "remove" /\ pfRes' = None
    /\ UNCHANGED nonPfVars

NextPf ==
    \/ \E failAt \in ForkSteps : PfFork(failAt)
    \/ \E pid \in Pids : PfRemove(pid)

SpecPf == InitPf /\ [][NextPf]_vars

(***************************************************************************)
(* Claims on the virtual memory transaction (checked under SpecVMem).      *)
(***************************************************************************)
Addrs == 0 .. (Word - 1)

\* translate(v) as it was when the transaction began.
PreTranslate(v) ==
    IF pre[PageOf(v)] = None THEN None
    ELSE Some(pre[PageOf(v)][1] + (v % PAGE_SIZE))

\* translate(v) as the edits made through the transaction define it.
EditedTranslate(v) ==
    LET e == lastEdit[PageOf(v)]
    IN  IF e = None THEN PreTranslate(v)
        ELSE IF e[1] = "map" THEN Some(e[2] + (v % PAGE_SIZE))
        ELSE None

Restored == \A v \in Addrs : translate(tables, pte, v) = PreTranslate(v)

\* C1: a transaction whose calls all succeeded and that is dropped without
\* commit leaves translate(v) as it was before the transaction, for every v.
C1_DropRestores ==
    (txn = "dropped" /\ ~committed /\ ~anyErr) => Restored

\* C2: a transaction of which some call returned an error and that is
\* dropped without commit leaves translate(v) as it was before the
\* transaction, for every v.
C2_ErrorThenDropRestores ==
    (txn = "dropped" /\ ~committed /\ anyErr) => Restored

\* C3: after a transaction is committed and dropped, translate(v) is the
\* address given by the last map of v's page, None if the page's last edit
\* was an unmap, and the value before the transaction if it was not edited.
C3_CommitKeepsEdits ==
    (txn = "dropped" /\ committed /\ ~dirty) =>
        \A v \in Addrs : translate(tables, pte, v) = EditedTranslate(v)

\* C3 witness: a committed and dropped transaction that mapped a page twice,
\* to two different frames, and changed what the page translates to.
C3_Witness ==
    /\ txn = "dropped" /\ committed /\ ~dirty /\ nCalls = 2 /\ ~anyErr
    /\ \E p \in UserPages :
          /\ lastEdit[p] # None /\ lastEdit[p][1] = "map"
          /\ pre[p] # None /\ pre[p] # Some(lastEdit[p][2])
          /\ translate(tables, pte, p * PAGE_SIZE) = Some(lastEdit[p][2])

\* The step is a call on the transaction of a VMem<false> with the
\* non-empty range [virtaddr, virtaddr + pages * PAGE_SIZE), whose end lies
\* above PROCESS_END.
KernelRangeCall(virtaddr, pages) ==
    /\ ~kernel /\ pages >= 1
    /\ virtaddr + pages * PAGE_SIZE > PROCESS_END
    /\ \/ pages = 1 /\ \E ph \in PhysAddrs, d, a \in BOOLEAN :
                           Map(ph, virtaddr, d, a)
       \/ pages = 1 /\ \E a \in BOOLEAN : Unmap(virtaddr, a)
       \/ \E ph \in PhysAddrs, f \in 0 .. pages, a \in BOOLEAN :
              MapRange(ph, virtaddr, pages, f, a)
       \/ \E a \in BOOLEAN : UnmapRange(virtaddr, pages, a)

\* C4: on a VMem<false>, a call with a range whose end lies above
\* PROCESS_END fails with AllocError and leaves the page table and the
\* rollback log unchanged.
C4_KernelRangeRejected ==
    [][\A v \in VirtAddrs, n \in PageCounts :
          KernelRangeCall(v, n) =>
              /\ res' = "err"
              /\ tables' = tables /\ pte' = pte
              /\ rollback' = rollback]_vars

\* The step is a map_range or an unmap_range of `pages` pages at virtaddr.
RangeCall(virtaddr, pages) ==
    \/ \E ph \in PhysAddrs, f \in 0 .. pages, a \in BOOLEAN :
           MapRange(ph, virtaddr, pages, f, a)
    \/ \E a \in BOOLEAN : UnmapRange(virtaddr, pages, a)

\* pages * PAGE_SIZE, or virtaddr + pages * PAGE_SIZE, does not fit a word.
RangeWraps(virtaddr, pages) ==
    pages * PAGE_SIZE >= Word \/ virtaddr + pages * PAGE_SIZE >= Word

\* C32: on a VMem<false>, map_range and unmap_range edit no page at or above
\* PROCESS_END whatever the page count, and a count whose size, or whose end
\* address, wraps around the word is rejected with AllocError without any
\* edit of the page table or of the rollback log.
C32_RangeNeverEditsKernel ==
    [][(~kernel /\ nCalls' = nCalls + 1) =>
          \A v \in VirtAddrs, n \in PageCounts :
              RangeCall(v, n) =>
                  /\ \A p \in Pages \ UserPages :
                         pte'[p] = pte[p] /\ lastEdit'[p] = lastEdit[p]
                  /\ RangeWraps(v, n) =>
                         /\ res' = "err"
                         /\ tables' = tables /\ pte' = pte
                         /\ rollback' = rollback]_vars

\* translate(v) as it was at the last commit() (at the transaction's begin
\* when there was none).
AtCommitTranslate(v) ==
    IF atCommit[PageOf(v)] = None THEN None
    ELSE Some(atCommit[PageOf(v)][1] + (v % PAGE_SIZE))

\* C33: a transaction on which commit() was called and that is dropped
\* leaves translate(v) as it was at the last commit(), for every v: the
\* edits made before that commit persist and the edits made after it are
\* rolled back.
C33_CommitIsCheckpoint ==
    (txn = "dropped" /\ committed) =>
        \A v \in Addrs : translate(tables, pte, v) = AtCommitTranslate(v)

\* C33 for a drop with at most one token in the log and no failed call: the
\* case the rollback handles.
C33_CheckpointOneEdit ==
    [][(txn = "open" /\ txn' = "dropped" /\ committed /\ ~anyErr
            /\ Len(rollback) <= 1) =>
          \A v \in Addrs :
              translate(tables', pte', v) = AtCommitTranslate(v)]_vars

(***************************************************************************)
(* Claims on the file descriptor tables (checked under SpecFD).            *)
(***************************************************************************)
SlotIds == 0 .. (OPEN_MAX - 1)

\* The ids at or above `from` whose slot is empty (a slot beyond the table
\* is empty).
FreeIds(tbl, from) == {j \in SlotIds : j >= from /\ Slot(tbl, j) = None}

\* The step is a call `op` that returned Ok.
OkStep(op) == nFdCalls' = nFdCalls + 1 /\ fdOp' = op /\ fdRes'[1] = "ok"

\* C5: create_fd succeeds whenever a slot is empty (and no allocation
\* fails); it returns the smallest id whose slot is empty, stores the new
\* descriptor in exactly that slot and leaves every other slot (and every
\* other table) unchanged.
C5_CreateLowestFree ==
    [][(nFdCalls' = nFdCalls + 1 /\ fdOp' = "create_fd") =>
        \A t \in TableIds, fl \in {0, FD_CLOEXEC}, a \in BOOLEAN, v \in BOOLEAN :
          CreateFd(t, fl, a, v) =>
              /\ (a /\ v /\ FreeIds(fds[t], 0) # {}) => fdRes'[1] = "ok"
              /\ fdRes'[1] = "ok" =>
                  /\ FreeIds(fds[t], 0) # {}
                  /\ fdRes'[2] = SetMin(FreeIds(fds[t], 0))
                  /\ Slot(fds'[t], fdRes'[2]) = <<fl, nextFile + 1>>
                  /\ \A j \in SlotIds \ {fdRes'[2]} :
                         Slot(fds'[t], j) = Slot(fds[t], j)
                  /\ \A u \in TableIds \ {t} : fds'[u] = fds[u]]_vars

\* C5 witness: create_fd has just put the second open file into slot 0,
\* freed by a close, below a descriptor that is still open.
C5_Witness ==
    /\ fdOp = "create_fd" /\ fdRes = <<"ok", 0>>
    /\ nextFile = 2 /\ closeCount[1] = 0
    /\ Len(fds[1]) >= 2
    /\ Slot(fds[1], 0) # None /\ FdFile(Slot(fds[1], 0)) = 2
    /\ Slot(fds[1], 1) # None /\ FdFile(Slot(fds[1], 1)) = 1

\* C6: duplicate_fd(id, Min(V), _) with an open source id and V < OPEN_MAX
\* returns the lowest empty slot id that is >= V (when there is one and no
\* allocation fails).
C6_MinLowestFree ==
    [][(nFdCalls' = nFdCalls + 1 /\ fdOp' = "duplicate_fd") =>
        \A t \in TableIds, id \in SlotIds, m \in SlotIds, ce \in BOOLEAN :
          (/\ Slot(fds[t], id) # None
           /\ FreeIds(fds[t], m) # {}
           /\ DuplicateFd(t, id, <<"Min", m>>, ce, TRUE)) =>
              fdRes' = <<"ok", SetMin(FreeIds(fds[t], m))>>]_vars

\* C7: duplicate_fd with constraint None or Min never replaces a
\* descriptor: the id it returns was an empty slot, differs from the source
\* id, and every descriptor open before the call is still open after it.
C7_DupNeverReplaces ==
    [][OkStep("duplicate_fd") =>
        \A t \in TableIds, id \in SlotIds, ce \in BOOLEAN, v \in BOOLEAN,
           c \in {<<"None">>} \cup {<<"Min", m>> : m \in SlotIds} :
          DuplicateFd(t, id, c, ce, v) =>
              /\ Slot(fds[t], fdRes'[2]) = None
              /\ fdRes'[2] # id
              /\ \A j \in SlotIds :
                     Slot(fds[t], j) # None => Slot(fds'[t], j) = Slot(fds[t], j)]_vars

\* C8: duplicate_fd(id, Fixed(n), _) with n < OPEN_MAX returns n and leaves
\* the duplicate in slot n; a descriptor that occupied slot n is closed as
\* close_fd(n) closes it: its open file's close runs if it was the last
\* reference.
C8_FixedClosesOccupant ==
    [][OkStep("duplicate_fd") =>
        \A t \in TableIds, id \in SlotIds, n \in SlotIds, ce \in BOOLEAN,
           v \in BOOLEAN :
          DuplicateFd(t, id, <<"Fixed", n>>, ce, v) =>
              /\ fdRes'[2] = n
              /\ Slot(fds'[t], n) # None
              /\ FdFile(Slot(fds'[t], n)) = FdFile(Slot(fds[t], id))
              /\ (Slot(fds[t], n) # None /\ n # id
                  /\ Refs(fds', FdFile(Slot(fds[t], n))) = 0) =>
                     closeCount'[FdFile(Slot(fds[t], n))] =
                         closeCount[FdFile(Slot(fds[t], n))] + 1]_vars

\* C9: a duplicate made by duplicate_fd, and every descriptor of a table
\* made by duplicate, holds the same open file as the descriptor it was
\* made from; no open file is created, and only the flags (FD_CLOEXEC or
\* none) may differ.
C9_DupSharesOpenFile ==
    [][/\ OkStep("duplicate_fd") =>
            \A t \in TableIds, id \in SlotIds, c \in Constraints,
               ce \in BOOLEAN, v \in BOOLEAN :
               DuplicateFd(t, id, c, ce, v) =>
                 /\ FdFile(Slot(fds'[t], fdRes'[2])) = FdFile(Slot(fds[t], id))
                 /\ FdFlags(Slot(fds'[t], fdRes'[2])) =
                        (IF ce THEN FD_CLOEXEC ELSE 0)
                 /\ nextFile' = nextFile
       /\ OkStep("duplicate") =>
            \A ce \in BOOLEAN :
               DuplicateTable(ce, TRUE) =>
                 /\ \A j \in SlotIds :
                        Slot(fds'[2], j) # None =>
                            Slot(fds'[2], j) = Slot(fds[1], j)
                 /\ fds'[1] = fds[1] /\ nextFile' = nextFile]_vars

\* C9 witness: after duplicate_fd and duplicate, one open file is held by a
\* descriptor of the second table and by two descriptors of the first whose
\* flags differ.
C9_Witness ==
    /\ hasTable[2] /\ nextFile = 1
    /\ \E i \in SlotIds, j \in SlotIds, k \in SlotIds :
          /\ i # j
          /\ Slot(fds[1], i) # None /\ Slot(fds[1], j) # None
          /\ Slot(fds[2], k) # None
          /\ FdFlags(Slot(fds[1], i)) # FdFlags(Slot(fds[1], j))
          /\ FdFile(Slot(fds[1], i)) = 1 /\ FdFile(Slot(fds[1], j)) = 1
          /\ FdFile(Slot(fds[2], k)) = 1

C11_CloseBadFd ==
    [][(nFdCalls' = nFdCalls + 1 /\ fdOp' = "close_fd") =>
        \A t \in TableIds, id \in FdIds :
          CloseFd(t, id) =>
              /\ (id < 0 \/ id >= Len(fds[t]) \/ Slot(fds[t], id) = None) =>
                    /\ fdRes' = <<"err", "EBADF">>
                    /\ fds' = fds /\ closeCount' = closeCount
              /\ fdRes'[1] = "ok" =>
                    /\ Slot(fds'[t], id) = None
                    /\ close_fd(fds'[t], id).res = <<"err", "EBADF">>]_vars

\* C11 witness: a descriptor was created and closed, and a second close_fd
\* has just returned EBADF.
C11_Witness ==
    /\ fdOp = "close_fd" /\ fdRes = <<"err", "EBADF">>
    /\ nFdCalls = 3 /\ nextFile = 1 /\ closeCount[1] = 1
    /\ fds[1] = <<>>

\* The number of descriptors open in table tbl.
OpenCount(tbl) == Cardinality({k \in 1 .. Len(tbl) : tbl[k] # None})

\* C12: no table is longer than OPEN_MAX; create_fd, and duplicate_fd with
\* None or Min, on a table with no free id below OPEN_MAX, and duplicate_fd
\* with Fixed(n), n >= OPEN_MAX, return EMFILE and leave the table unchanged.
C12_OpenMaxEMFILE ==
    /\ [](\A t \in TableIds : Len(fds[t]) <= OPEN_MAX)
    /\ [][(nFdCalls' = nFdCalls + 1) =>
          \A t \in TableIds :
            /\ (FreeIds(fds[t], 0) = {} /\ fdOp' = "create_fd") =>
                 \A fl \in {0, FD_CLOEXEC}, a \in BOOLEAN, v \in BOOLEAN :
                   CreateFd(t, fl, a, v) =>
                       fdRes' = <<"err", "EMFILE">> /\ fds' = fds
            /\ (fdOp' = "duplicate_fd") =>
                 \A id \in FdIds, c \in Constraints, ce \in BOOLEAN,
                    v \in BOOLEAN :
                   (/\ \/ c[1] # "Fixed" /\ FreeIds(fds[t], 0) = {}
                       \/ c[1] = "Fixed" /\ c[2] >= OPEN_MAX
                    /\ DuplicateFd(t, id, c, ce, v)) =>
                       fdRes' = <<"err", "EMFILE">> /\ fds' = fds]_vars

\* C13: TOTAL_FD equals the number of descriptors open in all tables.
C13_TotalFdCounts ==
    total_fd = OpenCount(fds[1]) + OpenCount(fds[2])

\* C14: duplicate(cloexec) makes a table that holds, at the same ids, the
\* descriptors of the source: all of them when cloexec is false, those
\* whose flags lack FD_CLOEXEC when it is true; the source is unchanged.
C14_DuplicateFiltersCloexec ==
    [][(nFdCalls' = nFdCalls + 1 /\ fdOp' = "duplicate" /\ fdRes'[1] = "ok") =>
        \A ce \in BOOLEAN :
          DuplicateTable(ce, TRUE) =>
              /\ \A j \in SlotIds :
                   Slot(fds'[2], j) =
                       IF /\ Slot(fds[1], j) # None
                          /\ (~ce \/ FdFlags(Slot(fds[1], j)) % 2 = 0)
                       THEN Slot(fds[1], j) ELSE None
              /\ Len(fds'[2]) <= OPEN_MAX
              /\ fds'[1] = fds[1]]_vars

\* C14 witness: duplicate(true) has just made the second table from a table
\* holding a descriptor with FD_CLOEXEC and one without: only the latter is
\* in the new table.
C14_Witness ==
    /\ fdOp = "duplicate" /\ fdRes[1] = "ok" /\ hasTable[2]
    /\ \E i \in SlotIds, j \in SlotIds :
          /\ Slot(fds[1], i) # None /\ FdFlags(Slot(fds[1], i)) = FD_CLOEXEC
          /\ Slot(fds[1], j) # None /\ FdFlags(Slot(fds[1], j)) = 0
          /\ Slot(fds[2], i) = None
          /\ Slot(fds[2], j) = Slot(fds[1], j)

\* The constraint can be satisfied on the table: an id it allows exists.
Satisfiable(tbl, constraint) ==
    IF constraint[1] = "None" THEN FreeIds(tbl, 0) # {}
    ELSE IF constraint[1] = "Fixed" THEN constraint[2] < OPEN_MAX
    ELSE FreeIds(tbl, constraint[2]) # {}

\* What C35 says of a duplicate_fd(id, c, _) step on table t whose source id
\* holds no descriptor.
BadSourceFails(t, id, c) ==
    /\ fdRes'[1] = "err"
    /\ Satisfiable(fds[t], c) => fdRes' = <<"err", "EBADF">>
    /\ fds' = fds

\* C35: duplicate_fd with a source id that is negative, beyond the table or
\* an empty slot returns an error, EBADF when the constraint can be
\* satisfied, and leaves every slot of the table as it was, for the
\* constraints None, Fixed and Min.
C35_BadSourceNoEffect ==
    [][(nFdCalls' = nFdCalls + 1 /\ fdOp' = "duplicate_fd") =>
        \A t \in TableIds, id \in FdIds, c \in Constraints, ce \in BOOLEAN,
           v \in BOOLEAN :
          (Slot(fds[t], id) = None /\ DuplicateFd(t, id, c, ce, v)) =>
              BadSourceFails(t, id, c)]_vars

\* C35 for the constraints whose minimum lies within the table.
C35_BadSourceInTable ==
    [][(nFdCalls' = nFdCalls + 1 /\ fdOp' = "duplicate_fd") =>
        \A t \in TableIds, id \in FdIds, c \in Constraints, ce \in BOOLEAN,
           v \in BOOLEAN :
          (/\ Slot(fds[t], id) = None
           /\ c[1] = "Min" => c[2] <= Len(fds[t])
           /\ DuplicateFd(t, id, c, ce, v)) =>
              BadSourceFails(t, id, c)]_vars

(***************************************************************************)
(* Claims on the device registry (checked under SpecDev).                  *)
(***************************************************************************)
\* The Stat create_file gives the file of device d.
StatOf(d) == <<as_file_type(d.id[1]), d.id[2], d.id[3], d.mode>>

Registered == {id \in DeviceIDs : devs[id] # None}

\* C15: register with an id that is already in the registry fails; the
\* registry still maps the id to the device registered before, and that
\* device's file is untouched.
C15_DuplicateIdFails ==
    [][(dpc = "reg_insert" /\ devs[cur[1].id] # None) =>
          /\ dpc' = "idle" /\ devRes' = "err"
          /\ devs' = devs
          /\ devFiles' = devFiles]_vars

\* A register made while files management is not initialized creates no
\* device file.
Stage1NoFile ==
    (devOp' = "register" /\ ~fileInit) =>
        \A p \in DevPaths : devFiles[p] = None => devFiles'[p] = None

\* A register made once files management is initialized has a device file
\* at the device's path when it returns Ok.
Stage2RegisterFile ==
    (dpc = "reg_file" /\ fileInit /\ devRes' = "ok") =>
        devFiles'[cur[1].path] # None

\* stage2 has just returned Ok.
Stage2Returned ==
    dpc = "idle" /\ devOp = "stage2" /\ stage2 = "ok" /\ devRes = "ok"

C17_CreateFileUnlocked ==
    /\ dpc \in {"reg_file", "s2_files"} => held = {}
    /\ held # {} => dpc \in {"reg_insert", "s2_snapshot"}

\* C17 witness: stage2 has released the locks and created the file of one
\* device; the file of another is still to be created.
C17_Witness ==
    /\ dpc = "s2_files" /\ held = {}
    /\ \E e \in devs_info : devFiles[e[2]] = None
    /\ \E id \in Registered :
          /\ <<id, devs[id][1].path, devs[id][1].mode>> \notin devs_info
          /\ devFiles[devs[id][1].path] = Some(StatOf(devs[id][1]))

\* The step is a return of register with an error: from its first part (an
\* allocation failed before the lock was taken) or from a later part.
RegisterErrEarly ==
    dpc = "idle" /\ nextDev' = nextDev + 1 /\ devRes' = "err"
RegisterErrLate ==
    dpc \in {"reg_insert", "reg_file"} /\ dpc' = "idle" /\ devRes' = "err"

\* C36: when register returns an error, the registry is as it was before
\* the call, and no id is mapped to the device whose registration failed.
C36_FailedRegisterNoEffect ==
    [][/\ RegisterErrEarly => devs' = devs
       /\ RegisterErrLate =>
              /\ Some(devs') = regBefore
              /\ \A id \in DeviceIDs : get(devs', id) # Some(cur[1])]_vars

(***************************************************************************)
(* Claims on the memory space (checked under SpecMs).                      *)
(***************************************************************************)
\* The pages of the byte range [ptr, ptr + size).
AccessPages(ptr, size) == (ptr \div PAGE_SIZE) .. ((ptr + size - 1) \div PAGE_SIZE)

\* Some mapping that holds the page admits the access.
Admits(ms, page, user, write) ==
    \E m \in get_mapping_for(ms, page) :
        /\ user => HasFlag(m.flags, MAPPING_FLAG_USER)
        /\ write => HasFlag(m.flags, MAPPING_FLAG_WRITE)

\* C18: can_access returns true only if every page of [ptr, ptr + size)
\* lies in a mapping whose flags admit the access.
C18_CanAccessChecksMappings ==
    [][(nMsCalls' = nMsCalls + 1 /\ msOp' = "can_access") =>
        \A ptr \in AccessPtrs, size \in AccessSizes, u \in BOOLEAN,
           w \in BOOLEAN :
          (MsCanAccess(ptr, size, u, w) /\ msRes' = <<"bool", TRUE>>) =>
              \A page \in AccessPages(ptr, size) :
                  Admits(mappings, page, u, w)]_vars

\* The fault is an access from user mode to a mapping without
\* MAPPING_FLAG_USER.
KernelRingViolation(ms, page, code) ==
    code.user /\ \A m \in get_mapping_for(ms, page) :
                    ~HasFlag(m.flags, MAPPING_FLAG_USER)

\* C19: handle_page_fault returns Unresolved exactly when no mapping holds
\* the address or the fault is a kernel-ring violation; every other fault,
\* a not-present one included, materializes the page and nothing else and
\* returns Resolved (allocation permitting).
C19_PageFaultResolution ==
    [][(nMsCalls' = nMsCalls + 1 /\ msOp' = "handle_page_fault") =>
        \A page \in 0 .. MemPages, code \in FaultCodes :
          MsPageFault(page, code, TRUE, TRUE) =>
              IF \/ get_mapping_for(mappings, page) = {}
                 \/ KernelRingViolation(mappings, page, code)
              THEN msRes' = <<"unresolved">> /\ present' = present
              ELSE msRes' = <<"resolved">>
                   /\ present' = present \cup {page}]_vars

\* C20: the gaps and the mappings are pairwise disjoint and together cover
\* exactly the user range.
C20_GapsMappingsPartition ==
    LET ranges == {<<"gap", g[1], g[2]>> : g \in gaps}
                  \cup {<<"mapping", m.begin, m.size>> : m \in mappings}
    IN  /\ \A a \in ranges, b \in ranges :
              a # b => Range(a[2], a[3]) \cap Range(b[2], b[3]) = {}
        /\ UNION {Range(a[2], a[3]) : a \in ranges} = MsPages

\* gaps and gaps_size hold the same gaps.
IndexesAgree == gaps_size = {<<g[2], g[1]>> : g \in gaps}

\* The gaps of at least n pages, and those of the least size among them.
Fitting(n) == {g \in gaps : g[2] >= n}
BestFit(n) == {g \in Fitting(n) : \A h \in Fitting(n) : g[2] <= h[2]}

\* What C26 says of a map(None, n, flags) step in which no allocation
\* fails.
MapAsSpecified(n, flags) ==
    IF Fitting(n) = {}
    THEN /\ msRes' = <<"err", "ENOMEM">>
         /\ UNCHANGED <<gaps, gaps_size, mappings>>
    ELSE \E g \in BestFit(n) :
           LET rest == IF g[2] = n THEN {} ELSE {<<g[1] + n, g[2] - n>>}
           IN  /\ msRes' = <<"ok", g[1]>>
               /\ mappings' = mappings \cup
                     {[begin |-> g[1], size |-> n, flags |-> flags]}
               /\ gaps' = (gaps \ {g}) \cup rest
               /\ gaps_size' = (gaps_size \ {<<g[2], g[1]>>})
                                \cup {<<r[2], r[1]>> : r \in rest}

\* C26: map(None, n, flags) takes a gap of the least size among the gaps of
\* at least n pages, puts the mapping at its begin and returns it, replaces
\* the gap in both indexes by the remainder (or by nothing); with no such gap
\* it returns ENOMEM and leaves gaps and mappings unchanged.
C26_MapBestFit ==
    [][(nMsCalls' = nMsCalls + 1 /\ msOp' = "map") =>
        \A n \in 1 .. MemPages, flags \in MsFlags :
            MsMap(n, flags, "none") => MapAsSpecified(n, flags)]_vars

\* C26 in the states where the two gap indexes agree.
C26_MapBestFitAgreeing ==
    [][(nMsCalls' = nMsCalls + 1 /\ msOp' = "map" /\ IndexesAgree) =>
        \A n \in 1 .. MemPages, flags \in MsFlags :
            MsMap(n, flags, "none") => MapAsSpecified(n, flags)]_vars

\* C27: when the first resolution of a fault fails, handle_page_fault calls
\* the OOM killer once and retries once; it panics if the retry fails too,
\* and it returns Resolved only if an attempt succeeded (the page is then
\* materialized).
C27_OomRetryOnce ==
    [][(nMsCalls' = nMsCalls + 1 /\ msOp' = "handle_page_fault") =>
        \A page \in 0 .. MemPages, code \in FaultCodes, a1 \in BOOLEAN,
           a2 \in BOOLEAN :
          MsPageFault(page, code, a1, a2) =>
            /\ msRes' = <<"resolved">> => ((a1 \/ a2) /\ page \in present')
            /\ (code.present /\ get_mapping_for(mappings, page) # {}) =>
                 /\ a1 => (msRes' = <<"resolved">> /\ oom_kills' = oom_kills)
                 /\ (~a1 /\ a2) => /\ msRes' = <<"resolved">>
                                   /\ oom_kills' = oom_kills + 1
                 /\ (~a1 /\ ~a2) => /\ msRes' = <<"panic">>
                                    /\ oom_kills' = oom_kills + 1
                                    /\ present' = present]_vars

\* A fault whose first resolution failed and whose retry succeeded.
C27_Witness ==
    /\ msOp = "handle_page_fault" /\ msRes = <<"resolved">>
    /\ oom_kills = 1 /\ present # {}


(***************************************************************************)
(* Claims on forking a memory space (checked under SpecFk).                *)
(***************************************************************************)
\* The pages of the live spaces that translate to the frame f.
RefsTo(f) ==
    {<<s, p>> \in Spaces \X MsPages :
        /\ spaces[s].alive /\ spaces[s].pt[p] # None
        /\ FrameOf(spaces[s], p) = f}

\* The reference count of every frame is the number of pages of mappings
\* that refer to it.
RefCountExact == \A f \in Frames : ref_counter[f] = Cardinality(RefsTo(f))

\* A page of a private writable mapping on a frame another page shares is
\* read-only.
SharedPrivateReadOnly ==
    \A s \in Spaces : \A p \in Materialized(spaces[s]) :
        \A m \in get_mapping_for(spaces[s].mappings, p) :
            (/\ HasFlag(m.flags, MAPPING_FLAG_WRITE)
             /\ ~HasFlag(m.flags, MAPPING_FLAG_SHARED)
             /\ Cardinality(RefsTo(FrameOf(spaces[s], p))) > 1)
            => ~spaces[s].pt[p][2]

\* A successful fork gives the child the parent's gaps, mappings and
\* translations, and keeps the parent's.
ForkClones ==
    (fkOp' = <<"fork">> /\ fkRes' = <<"ok">> /\ nFkCalls' = nFkCalls + 1) =>
        LET p == spaces["parent"]
            c == spaces'["child"]
        IN  /\ c.alive
            /\ c.gaps = p.gaps /\ c.gaps_size = p.gaps_size
            /\ c.mappings = p.mappings
            /\ Materialized(c) = Materialized(p)
            /\ \A q \in Materialized(p) :
                  /\ FrameOf(c, q) = FrameOf(p, q)
                  /\ FrameOf(spaces'["parent"], q) = FrameOf(p, q)
            /\ spaces'["parent"].mappings = p.mappings
            /\ spaces'["parent"].gaps = p.gaps

\* A fault on a page of a private writable mapping that shares its frame
\* moves the page to a frame of its own, writable; the other pages keep the
\* old frame.
FaultUnshares ==
    \A s \in Spaces, q \in MsPages, w \in BOOLEAN :
      (/\ fkOp' = <<"handle_page_fault", s, q, w>>
       /\ nFkCalls' = nFkCalls + 1 /\ fkRes' = <<"resolved">>
       /\ q \in Materialized(spaces[s])
       /\ ref_counter[FrameOf(spaces[s], q)] > 1
       /\ \E m \in get_mapping_for(spaces[s].mappings, q) :
             /\ HasFlag(m.flags, MAPPING_FLAG_WRITE)
             /\ ~HasFlag(m.flags, MAPPING_FLAG_SHARED))
      => /\ FrameOf(spaces'[s], q) # FrameOf(spaces[s], q)
         /\ spaces'[s].pt[q][2]
         /\ ref_counter'[FrameOf(spaces'[s], q)] = 1
         /\ ref_counter'[FrameOf(spaces[s], q)]
              = ref_counter[FrameOf(spaces[s], q)] - 1
         /\ \A t \in Spaces \ {s} : spaces'[t] = spaces[t]

RECURSIVE Kept(_, _, _)
\* The elements of v from position i on that f keeps, in order.
Kept(v, f, i) ==
    IF i > Len(v) THEN <<>>
    ELSE IF f[i] THEN <<v[i]>> \o Kept(v, f, i + 1) ELSE Kept(v, f, i + 1)

\* C24: retain(f) calls f once on each element, in index order, and leaves
\* exactly the elements f kept, in their order, len being their count.
C24_RetainKeepsInOrder ==
    [][(nVecCalls' = nVecCalls + 1 /\ vecOp' = "retain") =>
        \A f \in KeepPatterns :
            VecRetain(f) =>
                /\ vec' = Kept(vec, f, 1)
                /\ Len(vec') = Cardinality({i \in 1 .. Len(vec) : f[i]})
                /\ fcalls' = [i \in 1 .. Len(vec) |-> <<i - 1, vec[i]>>]]_vars

\* A retain that deleted the first and the third of four distinct elements
\* and kept the second and the fourth.
C24_Witness ==
    /\ vecOp = "retain" /\ Len(fcalls) = MaxVecLen /\ Len(vec) = 2
    /\ \A i, j \in 1 .. MaxVecLen : i # j => fcalls[i][2] # fcalls[j][2]
    /\ vec[1] = fcalls[2][2] /\ vec[2] = fcalls[4][2]


(***************************************************************************)
(* Claims on vmem::switch (checked under SpecSw).                          *)
(***************************************************************************)
\* While f runs, the context given to the innermost switch is bound and
\* interrupts are disabled.
RunsBound ==
    swStack # <<>> => (cr3 = swStack[Len(swStack)].vmem /\ ~interrupts)

\* When a switch returns, cr3 and the interrupt flag are those from before
\* its call.
ReturnRestores ==
    (swOp' = "return" /\ Len(swStack') = Len(swStack) - 1) =>
        LET frame == swStack[Len(swStack)]
        IN  cr3' = frame.before /\ interrupts' = frame.int

\* C23: switch(vmem, f) runs f with vmem bound and interrupts disabled, and
\* when it returns the page directory bound and the interrupt flag are the
\* ones from before the call, whether or not vmem was already bound.
C23_SwitchRestores == []RunsBound /\ [][ReturnRestores]_vars

\* The outermost switch has returned with interrupts enabled again, after
\* a switch inside it had returned too.
C23_Witness ==
    swOp = "return" /\ swStack = <<>> /\ interrupts


(***************************************************************************)
(* Claims on vmem::init (checked under SpecK).                             *)
(***************************************************************************)
\* The sections a page belongs to, and those of them init maps.
SectionsOf(p) ==
    {i \in 1 .. Len(sections) : p \in SectionPages(sections[i])}
MappedSectionsOf(p) ==
    {i \in SectionsOf(p) : sections[i].aligned /\ sections[i].page >= 0}

UserOnlyDotUser ==
    \A p \in KPages :
        "USER" \in kpt[p] => \E i \in SectionsOf(p) : sections[i].user
AllGlobal == \A p \in KPages : "GLOBAL" \in kpt[p]

\* C29 as stated: a kernelspace page is writable only if it belongs to a
\* section with SHF_WRITE or is the VGA buffer page, user-accessible only if
\* it belongs to the .user section, and every page is GLOBAL.
C29_KernelPageFlagsAnyPage ==
    kinit = "ok" =>
        /\ \A p \in KPages :
              "WRITE" \in kpt[p] =>
                  \/ p = VgaPage
                  \/ \E i \in SectionsOf(p) : sections[i].write
        /\ UserOnlyDotUser /\ AllGlobal

\* C29, amended: a kernelspace page that belongs to a page-aligned section
\* is writable only if it belongs to such a section with SHF_WRITE or is the
\* VGA buffer page; the pages of no page-aligned section are writable; a
\* page is user-accessible only if it belongs to the .user section; every
\* page is GLOBAL.
C29_KernelPageFlags ==
    kinit = "ok" =>
        /\ \A p \in KPages :
              /\ (MappedSectionsOf(p) # {} /\ "WRITE" \in kpt[p]) =>
                    \/ p = VgaPage
                    \/ \E i \in MappedSectionsOf(p) : sections[i].write
              /\ MappedSectionsOf(p) = {} => "WRITE" \in kpt[p]
        /\ UserOnlyDotUser /\ AllGlobal

\* init returned Ok on a table with a read-only page-aligned section and a
\* .user section, off the VGA page.
C29_Witness ==
    /\ kinit = "ok"
    /\ \E p \in KPages \ {VgaPage} :
          MappedSectionsOf(p) # {} /\ "WRITE" \notin kpt[p]
    /\ \E p \in KPages : "USER" \in kpt[p]


(***************************************************************************)
(* Claims on Socket (checked under SpecSock).                              *)
(***************************************************************************)
\* C30: bind returns Ok at most once per socket; after a bind that returned
\* Ok, is_bound() is true and the name stays the address of that bind, for
\* every address, the empty one included.
C30_BindAtMostOnce ==
    /\ okBinds <= 1
    /\ okBinds >= 1 => (is_bound(sockname) /\ sockname = firstName[1])


(***************************************************************************)
(* Claims on splice (checked under SpecSp).                                *)
(***************************************************************************)
\* C22: when splice has returned, the bytes it read from the input, at most
\* len and read once, have been written to the output each once and in
\* order, their count is the result, and they are gone from the input pipe,
\* however the output accepted them.
C22_SpliceTransfersOnce ==
    spPc = "done" =>
        /\ pipeOut = spOut0 \o spBuf
        /\ spIn0 = spBuf \o pipeIn
        /\ spRes = <<"ok", Len(spBuf)>>


(***************************************************************************)
(* Claims on do_writev (checked under SpecWv).                             *)
(***************************************************************************)
\* No wake-up is lost: a sleeping process is in the wait queue, where the
\* next wake-up finds it, and between an attempt that wrote nothing and the
\* enqueue no other thread drains the file or wakes its queue.
NoLostWakeup == sleeping => inQueue
NoWakeBeforeEnqueue ==
    (wvPc = "enqueue" /\ wvPc' = "enqueue") =>
        UNCHANGED <<wvRoom, inQueue, sleeping>>

\* An attempt that transfers nothing on a non-blocking file returns EAGAIN
\* and enqueues nothing; one that transfers bytes returns their count; on a
\* blocking file the open file stays locked up to the enqueue.
AttemptOutcome ==
    (wvPc = "attempt" /\ wvPc' # "attempt") =>
        /\ (wvPc' = "returned" /\ wvRes'[1] = "ok") =>
              (wvLen' > 0 /\ wvRes' = <<"ok", wvLen'>>)
        /\ wvRes' = <<"err", "EAGAIN">> =>
              (wvNonblock /\ wvLen' = 0 /\ inQueue' = inQueue)
        /\ wvPc' = "enqueue" => (~wvNonblock /\ wvLen' = 0 /\ ofLocked')
        /\ (~\E e \in {"EPIPE", "EFAULT"}, part \in 0 .. MaxWrite :
                  WvError(e, part)) =>
              /\ wvLen' > 0 => wvPc' = "returned"
              /\ (wvLen' = 0 /\ wvNonblock) => wvRes' = <<"err", "EAGAIN">>
              /\ (wvLen' = 0 /\ ~wvNonblock) => wvPc' = "enqueue"

\* The process enters the wait queue only with the open file's lock held,
\* from the attempt on, and then goes to end_tick; it retries after it.
EnqueueLocked ==
    /\ (inQueue' /\ ~inQueue) =>
          (ofLocked /\ wvPc = "enqueue" /\ wvPc' = "end_tick" /\ ~ofLocked')
    /\ (wvPc = "end_tick" /\ wvPc' # "end_tick") => wvPc' = "loop"

\* C28: a write attempt of do_writev that transfers no byte returns EAGAIN
\* without enqueuing the process if O_NONBLOCK is set; otherwise the process
\* enters the open file's wait queue while the lock taken for the attempt is
\* still held, so no wake-up is lost, then yields and retries; an attempt
\* that transfers a byte returns the count.
C28_WritevBlocks ==
    /\ []NoLostWakeup
    /\ [][AttemptOutcome /\ EnqueueLocked /\ NoWakeBeforeEnqueue]_vars

\* The process blocked, was woken by a drain, retried and wrote.
C28_Witness ==
    /\ wvPc = "returned" /\ wvRes # None /\ wvRes[1] = "ok"
    /\ nAttempts >= 2 /\ ~wvNonblock


\* C38: when do_writev was given an explicit offset and has returned,
\* whether with a count, with EAGAIN or with an error of the write, the open
\* file's offset is what it was when do_writev was called.
C38_ExplicitOffsetRestored ==
    (wvPc = "returned" /\ wvOffArg # None) => ofOffset = wvOff0

\* C38 on the return paths other than an error of the write.
C38_RestoredUnlessWriteError ==
    (wvPc = "returned" /\ wvOffArg # None
        /\ wvRes \notin {<<"err", "EPIPE">>, <<"err", "EFAULT">>}) =>
            ofOffset = wvOff0

\* An attempt on a blocking file with room whose entries hold no byte
\* returns 0 (or the error of the write), it does not block.
EmptyReturnsZero ==
    (wvPc = "attempt" /\ wvPc' # "attempt" /\ wvTotal = 0 /\ ~wvNonblock
        /\ wvRoom) =>
            /\ wvPc' = "returned"
            /\ wvRes' \in {<<"ok", 0>>, <<"err", "EPIPE">>, <<"err", "EFAULT">>}

\* do_writev returns, or else makes an attempt at which the file has no
\* room.
ReturnsIfRoom == <>(wvPc = "returned" \/ (wvPc = "attempt" /\ ~wvRoom))

\* C39: do_writev on a file that can accept data terminates: with no byte to
\* write it returns 0 instead of blocking, and under fair scheduling and
\* wake-ups it returns unless some attempt finds the file without room.
C39_WritevTerminates ==
    /\ [][EmptyReturnsZero]_vars
    /\ ReturnsIfRoom

\* C39 for calls that have a byte to write.
C39_NonEmptyTerminates == wvTotal > 0 => ReturnsIfRoom

(***************************************************************************)
(* Claims on the lock order (checked under SpecLk).                        *)
(***************************************************************************)
\* C25: no system call path takes the process lock or the descriptor
\* table's lock while it holds an open file's lock or a file's lock.
C25_LockOrder ==
    [][\A l \in {"process", "fd_table"} :
          (l \in lkHeld' /\ l \notin lkHeld) =>
              lkHeld \cap {"open_file", "file", "file2"} = {}]_vars


(***************************************************************************)
(* Claims on Process::get_oom_score (checked under SpecOom).               *)
(***************************************************************************)
\* C31: get_oom_score returns a score computed without overflow or underflow
\* of the 16-bit unsigned arithmetic, and the score of a process owned by
\* uid 0 is not higher than the score it would have with a non-zero uid.
C31_OomScoreBonus ==
    oomOp[1] = "get_oom_score" =>
        LET u == uid[oomOp[2]]
        IN  /\ oomRes[1] = "ok"
            /\ oom_score_exact(u) >= 0 /\ oom_score_exact(u) < U16
            /\ u = 0 => \A v \in Uids \ {0}, c \in BOOLEAN :
                   /\ get_oom_score(v, c)[1] = "ok"
                   /\ oomRes[2] <= get_oom_score(v, c)[2]


(***************************************************************************)
(* Claims on the consuming iterator of Vec (checked under SpecIt).         *)
(***************************************************************************)
\* C34: the items next returned are the vector's first elements in index
\* order, the items next_back returned are its last elements in reverse
\* index order, no element was returned twice, and once a call has returned
\* None every element has been returned.
C34_IterYieldsEachOnce ==
    LET v == iter.vec
        n == Len(v)
    IN  /\ Len(itFront) + Len(itBack) <= n
        /\ \A i \in 1 .. Len(itFront) : itFront[i] = v[i]
        /\ \A i \in 1 .. Len(itBack) : itBack[i] = v[n + 1 - i]
        /\ itOp \in {"next_none", "next_back_none"} =>
               Len(itFront) + Len(itBack) = n


(***************************************************************************)
(* Claims on pipe2 (checked under SpecPp).                                 *)
(***************************************************************************)
\* C37: a pipe2 that returns an error leaves the process's descriptors and
\* the user's array pipefd as they were before the call.
C37_Pipe2AllOrNothing ==
    [][(ppOp' = "pipe2" /\ ppRes'[1] = "err") =>
          \A in \in Pipe2Inputs :
              PpPipe2(in) =>
                  /\ file_descriptors' = file_descriptors
                  /\ pipefd' = pipefd]_vars


(***************************************************************************)
(* Claims on Process::fork (checked under SpecPf).                         *)
(***************************************************************************)
\* C40: a fork that fails leaves the set of used PIDs and the parent's list
\* of children as they were before the call: the PID it had reserved is
\* released.
C40_FailedForkReleasesPid ==
    [][(pfOp' = "fork" /\ pfRes'[1] = "err") =>
          \A failAt \in ForkSteps :
              PfFork(failAt) => (pids' = pids /\ children' = children)]_vars

\* C40 for the failures of add_child and of the scheduler's insertion.
C40_LateFailureReleasesPid ==
    [][(pfOp' = "fork" /\ pfRes'[1] = "err") =>
          \A failAt \in {"add_child", "add_process"} :
              PfFork(failAt) => (pids' = pids /\ children' = children)]_vars

====
